---- MODULE Spec2Model ----
(***************************************************************************)
(* Generation-resilience pipeline of jira-ai-test-generator:               *)
(* AIServiceManager over EnhancedAIClient (remote tier, cache, rate        *)
(* budget) and CursorAIClient (local rule-based tier), with the            *)
(* StoryTestGenerator entry point on top.                                  *)
(*                                                                         *)
(* Modelling conventions                                                   *)
(*  - a title is a sequence of lower-cased word tokens; the token set of   *)
(*    a title is what title.lower().split() gives in the code;             *)
(*  - a JSON string is a record [empty, val]: json.dumps(x) is never the   *)
(*    empty string, so it is truthy in Python even when x is [];           *)
(*  - a scenario record carries title, description, steps, severity and    *)
(*    priority; steps = << >> stands for a record without a 'steps' key;   *)
(*  - the 4000-line rule engine of CursorAIClient is a table (RuleEngine)  *)
(*    of the candidates it was observed to build for the model's texts.    *)
(***************************************************************************)
EXTENDS Integers, Sequences, FiniteSets, TLC

(***************************************************************************)
(* Bounds of the model                                                     *)
(***************************************************************************)
\* longest list handed to _ensure_scenario_limits
MaxList == 3
\* largest configured min_scenarios / max_scenarios
MaxLimit == 3
MaxParse == 5
MaxCacheCalls == 3
MaxExtra == 1
MaxExisting == 1
MaxScenarios == 3
\* longest JSON array the remote service answers with
MaxRemote == 5
\* the clock stops here
MaxTime == 5402
\* calls of a service other than groq explored per window
MaxSideCalls == 2
\* calls explored after a service's budget is used up
MaxOver == 2
\* free slots from which interleaved calls are explored
MaxSlots == 2

(***************************************************************************)
(* Program constants                                                       *)
(***************************************************************************)
WindowSeconds == 3600
GroqRateLimit == 100
HuggingfaceRateLimit == 1000
DefaultRateLimit == 100
GroqMinRaw == 5
GroqMaxKeep == 10
EnhancedMinScenarios == 3
ManagerMinScenarios == 3
ConfigMinScenarios == 3
DedupThresholdTenths == 8
FilterThresholdTenths == 7
SequentialUpTo == 2
MaxWorkers == 3
MinTitleChars == 10
TextFallbackFill == 6
TextLineCap == 8
RequestTimeout == 20
LowCount == 6
MediumCount == 8
HighCount == 12
LongSummaryChars == 120
MediumSummaryChars == 80

(***************************************************************************)
(* Words and character lengths (len() of the code counts characters)       *)
(***************************************************************************)
WordLen(w) ==
    CASE w = "" -> 0
      [] w \in {"a", "i", "1", "2", "3", "4", "5", "6", "-", "+"} -> 1
      [] w \in {"as", "is", "my", "to", "so", "of", "on", "by", "an",
                "**", "1.", "2."} -> 2
      [] w \in {"are", "for", "not", "can", "all"} -> 3
      [] w \in {"test", "cart", "want", "that", "user", "view", "past",
                "date", "fast", "case"} -> 4
      [] w \in {"check", "login", "page", "loads", "today", "works", "total",
                "shown", "order", "track", "large"} -> 5
      [] w \in {"verify", "logout", "system", "volume", "access"} -> 6
      [] w \in {"history", "handles", "invalid", "pending", "billing",
                "summary", "reports", "current", "format"} -> 7
      [] w \in {"approved", "customer", "rejected", "timezone", "handling",
                "scenario"} -> 8
      [] w \in {"purchases", "prevented", "processed", "dashboard"} -> 9
      [] w \in {"concurrent", "operations", "unapproved"} -> 10
      [] w \in {"unauthorized"} -> 12
      [] w \in {"functionality"} -> 13
      [] OTHER -> 5

RECURSIVE CharLen(_)
\* len(" ".join(words))
CharLen(ws) ==
    IF ws = << >> THEN 0
    ELSE IF Len(ws) = 1 THEN WordLen(ws[1])
    ELSE WordLen(ws[1]) + 1 + CharLen(Tail(ws))

\* set(text.split()): the empty token stands for the second of two spaces
WordSet(ws) == {ws[i] : i \in 1..Len(ws)} \ {""}

(***************************************************************************)
(* JSON strings                                                            *)
(***************************************************************************)
\* a local variable: value is computed once and Body works on the result
Bind(value, Body(_)) == CHOOSE y \in {Body(x) : x \in {value}} : TRUE

JsonDumps(list) == [empty |-> FALSE, val |-> list]
EmptyString == [empty |-> TRUE, val |-> << >>]
Truthy(str) == ~str.empty
JsonLoads(str) == str.val

(***************************************************************************)
(* Scenario records                                                        *)
(***************************************************************************)
DefaultSeverity == "S3 - Moderate"
DefaultPriority == "P3 - Medium"
NoSteps == << >>
DefaultEnhanceSteps == <<"1. Execute test", "2. Verify results">>
DefaultCleanSteps == <<"1. Set up test environment",
                       "2. Execute the test scenario",
                       "3. Verify expected results">>
QualitySteps == <<"1. Navigate to the relevant page or section",
                  "2. Execute the required test actions",
                  "3. Verify the expected outcome occurs",
                  "4. Document the test results">>

Scenario(t, d, st, sev, pri) ==
    [title |-> t, description |-> d, steps |-> st,
     severity |-> sev, priority |-> pri]

(***************************************************************************)
(* EnhancedAIClient: similarity and deduplication                          *)
(***************************************************************************)
\* _calculate_similarity(text1, text2) > threshold/10, in integers:
\* 0.0 when either word set is empty, else |inter| / |union|
SimilarityAbove(t1, t2, tenths) ==
    LET words1 == WordSet(t1)
        words2 == WordSet(t2)
    IN  IF words1 = {} \/ words2 = {} THEN FALSE
        ELSE 10 * Cardinality(words1 \cap words2)
                 > tenths * Cardinality(words1 \cup words2)

RECURSIVE RemoveDupLoop(_, _, _)
RemoveDupLoop(scenarios, unique_scenarios, seen_titles) ==
    IF scenarios = << >> THEN unique_scenarios
    ELSE LET scenario == Head(scenarios)
             is_duplicate == \E seen \in seen_titles :
                 SimilarityAbove(scenario.title, seen, DedupThresholdTenths)
         IN  IF is_duplicate
             THEN RemoveDupLoop(Tail(scenarios), unique_scenarios, seen_titles)
             ELSE RemoveDupLoop(Tail(scenarios),
                                Append(unique_scenarios, scenario),
                                seen_titles \cup {scenario.title})

\* variant: unique_scenarios.insert(0, scenario), the list comes out reversed
RemoveDuplicateScenariosReversed(scenarios) ==
    Bind(RemoveDupLoop(scenarios, << >>, {}), LAMBDA r :
        [i \in 1..Len(r) |-> r[Len(r) + 1 - i]])

\* _remove_duplicate_scenarios
RemoveDuplicateScenarios(scenarios) == RemoveDupLoop(scenarios, << >>, {})

(***************************************************************************)
(* EnhancedAIClient: validation                                            *)
(***************************************************************************)
ActionWords == {"verify", "test", "check", "validate", "ensure", "confirm"}
GenericTitles == {<<"test", "scenario">>, <<"scenario">>,
                  <<"test", "case">>, <<"test">>}

\* the title part of _validate_and_clean_scenario: None when rejected
TitleRejected(title) ==
    \/ title = << >>
    \/ CharLen(title) < MinTitleChars
    \/ title \in GenericTitles

\* tokens made of the characters of [\*\+\-] only, and of [\d\.] only
MarkerWords == {"-", "+", "**"}
EnumerationWords == {"1.", "2.", "1", "2", "3", "4", "5", "6"}

RECURSIVE DropLeading(_, _)
DropLeading(ws, dropped) ==
    IF ws = << >> THEN ws
    ELSE IF Head(ws) \in dropped THEN DropLeading(Tail(ws), dropped)
    ELSE ws

RECURSIVE DropTrailing(_, _)
DropTrailing(ws, dropped) ==
    IF ws = << >> THEN ws
    ELSE IF ws[Len(ws)] \in dropped
    THEN DropTrailing(SubSeq(ws, 1, Len(ws) - 1), dropped)
    ELSE ws

\* str.strip(): an empty token is what a removed word leaves between spaces
Strip(ws) == DropTrailing(DropLeading(ws, {""}), {""})

\* re.sub(r'[\*\+\-]', '', title).strip()
RemoveMarkers(title) ==
    Strip([i \in DOMAIN title |->
              IF title[i] \in MarkerWords THEN "" ELSE title[i]])

\* re.sub(r'^[\d\.\s]+', '', title).strip()
RemoveEnumeration(title) ==
    Strip(DropLeading(title, EnumerationWords \cup {""}))

\* the cleaning of the title: markers, enumeration, action word
CleanTitle(title) ==
    Bind(RemoveEnumeration(RemoveMarkers(title)), LAMBDA t :
        IF t = << >> THEN <<"verify", "">>
        ELSE IF Head(t) \in ActionWords THEN t
        ELSE <<"verify">> \o t)

\* _validate_and_clean_scenario for a candidate that is not rejected
ValidateAndCleanScenario(c) ==
    LET title == CleanTitle(c.title)
    IN  Scenario(title,
                 IF c.description = << >>
                 THEN <<"test", "scenario", "for">> \o title
                 ELSE c.description,
                 IF c.steps = << >> THEN DefaultCleanSteps ELSE c.steps,
                 IF c.severity = "" THEN DefaultSeverity ELSE c.severity,
                 IF c.priority = "" THEN DefaultPriority ELSE c.priority)

RECURSIVE CleanAll(_)
\* the loop 'for scenario in scenarios: cleaned = validate(scenario)'
CleanAll(cands) ==
    IF cands = << >> THEN << >>
    ELSE IF TitleRejected(Head(cands).title) THEN CleanAll(Tail(cands))
    ELSE <<ValidateAndCleanScenario(Head(cands))>> \o CleanAll(Tail(cands))

\* one record of _validate_and_enhance_scenarios
EnhanceScenario(s) ==
    Scenario(IF s.title = << >> THEN <<"test", "scenario">> ELSE s.title,
             IF s.description = << >>
             THEN <<"test", "scenario", "description">> ELSE s.description,
             IF s.steps = NoSteps THEN DefaultEnhanceSteps ELSE s.steps,
             IF s.severity = "" THEN DefaultSeverity ELSE s.severity,
             IF s.priority = "" THEN DefaultPriority ELSE s.priority)

\* _validate_and_enhance_scenarios
ValidateAndEnhanceScenarios(scenarios) ==
    RemoveDuplicateScenarios(
        [i \in 1..Len(scenarios) |-> EnhanceScenario(scenarios[i])])

(***************************************************************************)
(* EnhancedAIClient: parsing of the remote answer                          *)
(***************************************************************************)
Digits == <<"1", "2", "3", "4", "5", "6">>

QualityKeywords == {"verify", "test", "check", "validate", "ensure"}

\* _create_quality_scenario: a title that does not begin with an action
\* keyword gets "verify" in front
CreateQualityScenario(title) ==
    Bind(IF title # << >> /\ title[1] \in QualityKeywords
         THEN title ELSE <<"verify">> \o title, LAMBDA t :
        Scenario(t, <<"test", "scenario", "to">> \o t, QualitySteps,
                 DefaultSeverity, DefaultPriority))

\* _create_quality_scenario("Test functionality scenario n")
QualityFiller(n) ==
    CreateQualityScenario(<<"test", "functionality", "scenario", Digits[n]>>)

\* _improved_text_to_scenarios: lines holds the titles that
\* _clean_title_from_line takes from the keyword lines of the text (each
\* longer than ten characters); at most TextLineCap of them become records,
\* then the while loop fills the list up to TextFallbackFill records
TextToScenarios(lines) ==
    Bind([i \in 1..(IF Len(lines) > TextLineCap THEN TextLineCap ELSE Len(lines))
            |-> CreateQualityScenario(lines[i])], LAMBDA kept :
        kept \o [i \in 1..(IF Len(kept) < TextFallbackFill
                           THEN TextFallbackFill - Len(kept) ELSE 0)
                   |-> QualityFiller(Len(kept) + i)])

\* _improved_text_to_scenarios on a text without keyword lines
ImprovedTextToScenarios == TextToScenarios(<< >>)

\* A response text is described by what the cascade can see of it: kind says
\* whether a JSON array can be read from it, elems are the elements of that
\* array and lines the titles its keyword lines give to the text fallback.
\* An element is an object with a string title ("object", cand holds its
\* fields), a value that is not an object ("number"), or an object whose
\* title is not a string ("bad_title").
NoCandidate == Scenario(<< >>, << >>, << >>, "", "")

ObjectElements(items) ==
    [i \in 1..Len(items) |-> [shape |-> "object", cand |-> items[i]]]

JsonContent(elems, lines) == [kind |-> "json", elems |-> elems, lines |-> lines]

ProseContent(lines) == [kind |-> "prose", elems |-> << >>, lines |-> lines]

RECURSIVE CandidatesOf(_)
\* the elements _validate_and_clean_scenario looks into: isinstance(scenario,
\* dict) fails for the others, which are dropped
CandidatesOf(elems) ==
    IF elems = << >> THEN << >>
    ELSE (IF Head(elems).shape = "object" THEN <<Head(elems).cand>> ELSE << >>)
         \o CandidatesOf(Tail(elems))

\* the loop over the parsed array: title.strip() on a title that is not a
\* string raises AttributeError and leaves the loop
CleanParsedArray(elems) ==
    IF \E i \in DOMAIN elems : elems[i].shape = "bad_title"
    THEN [raised |-> TRUE, list |-> << >>]
    ELSE [raised |-> FALSE, list |-> CleanAll(CandidatesOf(elems))]

\* _improved_parse_scenarios without its outer handler: an exception of the
\* array loop leaves the function
ImprovedParseScenariosNoHandler(content) ==
    IF content.kind = "json" /\ content.elems # << >>
    THEN CleanParsedArray(content.elems)
    ELSE [raised |-> FALSE, list |-> TextToScenarios(content.lines)]

\* _improved_parse_scenarios: a non-empty JSON array is cleaned element by
\* element; an empty array or prose ends in the text fallback, and so does
\* any exception (except Exception: return self._improved_text_to_scenarios)
ImprovedParseScenarios(content) ==
    IF content.kind = "json" /\ content.elems # << >>
    THEN Bind(CleanParsedArray(content.elems), LAMBDA r :
            IF r.raised
            THEN [raised |-> FALSE, list |-> TextToScenarios(content.lines)]
            ELSE r)
    ELSE [raised |-> FALSE, list |-> TextToScenarios(content.lines)]

Prefix(seq, n) == IF Len(seq) > n THEN SubSeq(seq, 1, n) ELSE seq

(***************************************************************************)
(* Stories (the input of the pipeline)                                     *)
(***************************************************************************)
\* a text is named by an identifier; TextWords gives its words
NoneValue == "None"

TextWords(text) ==
    CASE text = "orders" ->
            <<"as", "a", "user", "i", "want", "to", "view", "my", "order",
              "history", "so", "that", "i", "can", "track", "purchases">>
      [] text = "billing" ->
            <<"as", "an", "admin", "i", "want", "to", "view", "all",
              "pending", "approved", "customer", "billing", "summary",
              "reports", "on", "dashboard", "by", "date">>
      [] OTHER -> << >>

\* a dict without text: no 'fields', or empty summary and description
StoryNoFields ==
    [has_fields |-> FALSE, summary |-> "", description |-> ""]
\* the order-history story of the specification, summary only
StoryOrders ==
    [has_fields |-> TRUE, summary |-> "orders", description |-> ""]
\* summary: null as Jira returns it for a field that is not set
StoryNullSummary ==
    [has_fields |-> TRUE, summary |-> NoneValue, description |-> "billing"]

Stories == {StoryNoFields, StoryOrders, StoryNullSummary}

(***************************************************************************)
(* CursorAIClient: the local rule-based tier                               *)
(***************************************************************************)
Candidate(t, d) == Scenario(t, d, NoSteps, DefaultSeverity, DefaultPriority)

BillingObject == <<"all", "pending", "approved", "customer", "billing",
                   "summary", "reports">>

\* generate_comprehensive_scenarios(text): the candidates the rule engine
\* builds for the texts of the model
RuleEngine(text) ==
    CASE text = "orders" ->
          << Candidate(<<"verify", "view", "my", "order", "history",
                         "functionality">>, <<"processes", "view">>),
             Candidate(<<"verify", "unauthorized", "access", "is",
                         "prevented">>, <<"prevents", "unauthorized">>),
             Candidate(<<"verify", "system", "handles", "large", "volume",
                         "of", "order">>, <<"maintains", "performance">>),
             Candidate(<<"verify", "concurrent", "user", "operations">>,
                       <<"handles", "simultaneous">>) >>
      [] text = "billing" ->
          << Candidate(<<"verify", "view">> \o BillingObject
                         \o <<"on", "dashboard", "by", "date",
                              "functionality">>, <<"processes", "view">>),
             Candidate(<<"verify", "unapproved">> \o BillingObject
                         \o <<"are", "not", "processed">>,
                       <<"unapproved", "rejected">>),
             Candidate(<<"verify", "past", "date", "handling", "for">>
                         \o BillingObject, <<"past", "dates">>),
             Candidate(<<"verify", "invalid", "date", "format", "is",
                         "rejected">>, <<"validates", "date", "format">>),
             Candidate(<<"verify", "unauthorized", "access", "is",
                         "prevented">>, <<"prevents", "unauthorized">>),
             Candidate(<<"verify", "system", "handles", "large", "volume",
                         "of">> \o BillingObject,
                       <<"maintains", "performance">>),
             Candidate(<<"verify", "concurrent", "user", "operations">>,
                       <<"handles", "simultaneous">>),
             Candidate(<<"verify", "current", "date", "handling", "for">>
                         \o BillingObject, <<"current", "dates">>),
             Candidate(<<"verify", "timezone", "handling", "for">>
                         \o BillingObject, <<"displays", "timezone">>) >>
      [] OTHER -> << >>

\* re.sub(r'^(verify|validate|check|test)\s+', '', title.lower())
NormalizeTitle(title) ==
    IF Len(title) >= 2 /\ Head(title) \in {"verify", "validate", "check", "test"}
    THEN Tail(title) ELSE title

\* scenario.get('type', 'functional'): the candidates carry no 'type'
ScenarioType(scenario) == "functional"

\* type_severity_map.get(type, 'S3 - Moderate'); the stories carry no issue
\* type, so no story override applies
DetermineSeverity(scenario) ==
    CASE ScenarioType(scenario) \in {"error_handling", "security"} ->
            "S1 - Critical"
      [] ScenarioType(scenario) \in {"data_validation", "business_rule",
                                     "functional"} -> "S2 - Major"
      [] ScenarioType(scenario) = "enhancement" -> "S4 - Low"
      [] OTHER -> "S3 - Moderate"

\* type_priority_map.get(type, 'P3 - Medium'); the stories carry no
\* priority, so no story override applies
DeterminePriority(scenario) ==
    CASE ScenarioType(scenario) \in {"error_handling", "security"} ->
            "P1 - Critical"
      [] ScenarioType(scenario) \in {"data_validation", "business_rule",
                                     "functional"} -> "P2 - High"
      [] ScenarioType(scenario) = "enhancement" -> "P4 - Low"
      [] OTHER -> "P3 - Medium"

\* _priority_order
PriorityOrder(priority) ==
    CASE priority = "P1 - Critical" -> 1
      [] priority = "P2 - High" -> 2
      [] priority = "P3 - Medium" -> 3
      [] priority = "P4 - Low" -> 4
      [] OTHER -> 5

\* _severity_order
SeverityOrder(severity) ==
    CASE severity = "S1 - Critical" -> 1
      [] severity = "S2 - Major" -> 2
      [] severity = "S3 - Moderate" -> 3
      [] severity = "S4 - Low" -> 4
      [] OTHER -> 5

\* the sort key (priority order, severity order), compared as a pair
ProcessedBefore(a, b) ==
    \/ PriorityOrder(a.priority) < PriorityOrder(b.priority)
    \/ /\ PriorityOrder(a.priority) = PriorityOrder(b.priority)
       /\ SeverityOrder(a.severity) < SeverityOrder(b.severity)

RECURSIVE InsertProcessed(_, _)
\* stable insertion: x goes after every element that is not after it
InsertProcessed(sorted, x) ==
    IF sorted = << >> THEN <<x>>
    ELSE IF ProcessedBefore(x, Head(sorted)) THEN <<x>> \o sorted
    ELSE <<Head(sorted)>> \o InsertProcessed(Tail(sorted), x)

RECURSIVE SortProcessed(_, _)
\* processed.sort(key=...) : a stable sort
SortProcessed(todo, sorted) ==
    IF todo = << >> THEN sorted
    ELSE SortProcessed(Tail(todo), InsertProcessed(sorted, Head(todo)))

RECURSIVE ProcessLoop(_, _, _, _)
ProcessLoop(scenarios, processed, seen_titles, seen_descriptions) ==
    IF scenarios = << >> THEN processed
    ELSE LET scenario == Head(scenarios)
             rest == Tail(scenarios)
         IN  IF scenario.title = << >> \/ scenario.description = << >>
             THEN ProcessLoop(rest, processed, seen_titles, seen_descriptions)
             ELSE IF \/ NormalizeTitle(scenario.title) \in seen_titles
                     \/ scenario.description \in seen_descriptions
             THEN ProcessLoop(rest, processed, seen_titles, seen_descriptions)
             ELSE ProcessLoop(rest,
                    Append(processed,
                           Scenario(scenario.title, scenario.description,
                                    NoSteps, DetermineSeverity(scenario),
                                    DeterminePriority(scenario))),
                    seen_titles \cup {NormalizeTitle(scenario.title)},
                    seen_descriptions \cup {scenario.description})

\* _process_scenarios
ProcessScenarios(scenarios) ==
    IF scenarios = << >> THEN << >>
    ELSE SortProcessed(ProcessLoop(scenarios, << >>, {}, {}), << >>)

\* _extract_plain_text of a field that holds a string or None
ExtractPlainText(text) == IF text = NoneValue THEN "" ELSE text

\* the text CursorAIClient.generate_test_scenarios works on: the
\* description, or the summary when the description is empty
CursorText(story) ==
    IF ExtractPlainText(story.description) # ""
    THEN ExtractPlainText(story.description)
    ELSE ExtractPlainText(story.summary)

\* variant: 'return ""' where the code returns json.dumps([])
CursorGenerateBareEmpty(story) ==
    IF ~story.has_fields THEN EmptyString
    ELSE IF CursorText(story) = "" THEN EmptyString
    ELSE IF RuleEngine(CursorText(story)) = << >> THEN EmptyString
    ELSE JsonDumps(ProcessScenarios(RuleEngine(CursorText(story))))

\* CursorAIClient.generate_test_scenarios: always a JSON string
CursorGenerateTestScenarios(story) ==
    IF ~story.has_fields THEN JsonDumps(<< >>)
    ELSE IF CursorText(story) = "" THEN JsonDumps(<< >>)
    ELSE IF RuleEngine(CursorText(story)) = << >> THEN JsonDumps(<< >>)
    ELSE JsonDumps(ProcessScenarios(RuleEngine(CursorText(story))))

(***************************************************************************)
(* The remote service                                                      *)
(***************************************************************************)
RemoteCandidate(t, d) == Scenario(t, d, << >>, "", "")

\* what the remote model may put into one element of its JSON answer; the
\* second title repeats the first with one more word (5 of 6 words shared)
RemotePool ==
    << RemoteCandidate(<<"verify", "login", "page", "loads", "fast">>,
                       <<"login", "is", "fast">>),
       RemoteCandidate(<<"verify", "login", "page", "loads", "fast", "today">>,
                       <<"login", "is", "fast", "today">>),
       RemoteCandidate(<<"check", "logout", "works">>, << >>),
       RemoteCandidate(<<"cart", "total", "is", "shown">>, <<"cart", "total">>) >>

RECURSIVE Repeat(_, _)
Repeat(x, n) == IF n = 0 THEN << >> ELSE <<x>> \o Repeat(x, n - 1)

\* the answer with count[i] copies of pool element i, in pool order
ItemsOf(count) ==
    Repeat(RemotePool[1], count[1]) \o Repeat(RemotePool[2], count[2])
    \o Repeat(RemotePool[3], count[3]) \o Repeat(RemotePool[4], count[4])

\* JSON arrays of at most MaxRemote elements
JsonContents ==
    { JsonContent(ObjectElements(ItemsOf(count)), << >>) :
        count \in { c \in [1..4 -> 0..MaxRemote] :
                       c[1] + c[2] + c[3] + c[4] <= MaxRemote } }

\* the outcome of requests.post: an exception (timeout, connection error), a
\* status other than 200, or a 200 answer whose content is a JSON array or
\* prose without any keyword line
RemoteOutcomes ==
    { [kind |-> "exception", content |-> ProseContent(<< >>)],
      [kind |-> "http_error", content |-> ProseContent(<< >>)],
      [kind |-> "ok", content |-> ProseContent(<< >>)] }
    \cup { [kind |-> "ok", content |-> c] : c \in JsonContents }

\* no request leaves the client
NotSent == [kind |-> "not_sent", content |-> ProseContent(<< >>)]

\* _groq_ultra_fast: [] without token, on an exception or on a status other
\* than 200, else the first ten parsed scenarios
GroqUltraFast(token, outcome) ==
    IF ~token THEN << >>
    ELSE IF outcome.kind # "ok" THEN << >>
    ELSE Bind(ImprovedParseScenarios(outcome.content), LAMBDA r :
            IF r.raised THEN << >> ELSE Prefix(r.list, GroqMaxKeep))

(***************************************************************************)
(* EnhancedAIClient: rate budget                                           *)
(***************************************************************************)
\* llm_services[service].get('rate_limit', 100)
RateLimit(service) ==
    CASE service = "groq" -> GroqRateLimit
      [] service = "huggingface" -> HuggingfaceRateLimit
      [] OTHER -> DefaultRateLimit

\* dict.get(key, default)
DictGet(dict, key, default) ==
    IF key \in DOMAIN dict THEN dict[key] ELSE default

\* dict[key] = value
DictSet(dict, key, value) ==
    [k \in DOMAIN dict \cup {key} |-> IF k = key THEN value ELSE dict[k]]

EmptyDict == [k \in {} |-> 0]

\* variant: 'current_count > rate_limit' in the comparison with the limit
CheckRateLimitOffByOne(counts, reset_time, current_time, service) ==
    LET expired == current_time - reset_time > WindowSeconds
        counts1 == IF expired THEN EmptyDict ELSE counts
        reset1 == IF expired THEN current_time ELSE reset_time
        current_count == DictGet(counts1, service, 0)
    IN  IF current_count > RateLimit(service)
        THEN [ret |-> FALSE, counts |-> counts1, reset_time |-> reset1]
        ELSE [ret |-> TRUE,
              counts |-> DictSet(counts1, service, current_count + 1),
              reset_time |-> reset1]

\* _check_rate_limit(service) at current_time: the value returned and the
\* fields it leaves behind
CheckRateLimit(counts, reset_time, current_time, service) ==
    LET expired == current_time - reset_time > WindowSeconds
        counts1 == IF expired THEN EmptyDict ELSE counts
        reset1 == IF expired THEN current_time ELSE reset_time
        current_count == DictGet(counts1, service, 0)
    IN  IF current_count >= RateLimit(service)
        THEN [ret |-> FALSE, counts |-> counts1, reset_time |-> reset1]
        ELSE [ret |-> TRUE,
              counts |-> DictSet(counts1, service, current_count + 1),
              reset_time |-> reset1]

(***************************************************************************)
(* EnhancedAIClient: cache and generation                                  *)
(***************************************************************************)
\* story.get('fields', {}).get('summary', '')
StorySummary(story) == IF story.has_fields THEN story.summary ELSE ""

\* _generate_cache_key: the digest of the first 100 characters of the
\* summary; the summaries of the model are shorter than that and distinct
\* summaries are taken to have distinct digests, so the summary names the key
GenerateCacheKey(story) == StorySummary(story)

\* summary[:100] raises TypeError on None
CacheKeyRaises(story) == StorySummary(story) = NoneValue

\* variant: the request is sent whatever the rate check answered
UltraFastGenerationIgnoreBudget(token, outcome, counts, reset_time, current_time) ==
    Bind(CheckRateLimit(counts, reset_time, current_time, "groq"), LAMBDA rl :
    Bind(GroqUltraFast(token, outcome), LAMBDA scenarios :
        [scenarios |-> IF Len(scenarios) >= GroqMinRaw
                       THEN scenarios ELSE << >>,
         counts |-> rl.counts,
         reset_time |-> rl.reset_time,
         trace |-> IF ~rl.ret THEN <<"rate_skip", "remote">>
                   ELSE IF token THEN <<"rate_ok", "remote">>
                   ELSE <<"rate_ok">>,
         remote |-> scenarios]))

\* _ultra_fast_generation: the rate check comes first and consumes a unit,
\* the scenarios of the remote service count only from five on. trace lists
\* what was done, remote is what _groq_ultra_fast handed back.
UltraFastGeneration(token, outcome, counts, reset_time, current_time) ==
    Bind(CheckRateLimit(counts, reset_time, current_time, "groq"), LAMBDA rl :
    Bind(GroqUltraFast(token, outcome), LAMBDA scenarios :
        [scenarios |-> IF rl.ret /\ Len(scenarios) >= GroqMinRaw
                       THEN scenarios ELSE << >>,
         counts |-> rl.counts,
         reset_time |-> rl.reset_time,
         trace |-> IF ~rl.ret THEN <<"rate_skip">>
                   ELSE IF token THEN <<"rate_ok", "remote">>
                   ELSE <<"rate_ok">>,
         remote |-> IF rl.ret THEN scenarios ELSE << >>]))

\* _get_fallback_scenarios
GetFallbackScenarios(story) == JsonLoads(CursorGenerateTestScenarios(story))

\* generate_comprehensive_test_scenarios: the string returned, the fields
\* left behind and the tiers used, in order
GenerateComprehensive(story, token, outcome, cache, counts, reset_time, current_time) ==
    IF CacheKeyRaises(story)
    THEN \* except Exception: return self.fallback_ai.generate_test_scenarios
         [result |-> CursorGenerateTestScenarios(story), cache |-> cache,
          counts |-> counts, reset_time |-> reset_time,
          trace |-> <<"local">>, remote |-> << >>]
    ELSE LET cache_key == GenerateCacheKey(story)
         IN  IF cache_key \in DOMAIN cache
             THEN [result |-> cache[cache_key], cache |-> cache,
                   counts |-> counts, reset_time |-> reset_time,
                   trace |-> <<"cache_hit">>, remote |-> << >>]
             ELSE
    Bind(UltraFastGeneration(token, outcome, counts, reset_time,
                             current_time), LAMBDA fast :
    Bind(Len(fast.scenarios) < EnhancedMinScenarios, LAMBDA use_fallback :
    Bind(IF use_fallback
         THEN fast.scenarios \o GetFallbackScenarios(story)
         ELSE fast.scenarios, LAMBDA scenarios :
    Bind(JsonDumps(ValidateAndEnhanceScenarios(scenarios)), LAMBDA result :
        [result |-> result,
         cache |-> DictSet(cache, cache_key, result),
         counts |-> fast.counts,
         reset_time |-> fast.reset_time,
         trace |-> IF use_fallback THEN fast.trace \o <<"local">>
                   ELSE fast.trace,
         remote |-> fast.remote]))))

(***************************************************************************)
(* AIServiceManager.generate_test_scenarios                                *)
(***************************************************************************)
\* self._generate_basic_scenarios is not defined in the class: the call
\* raises AttributeError inside the try block, the handler makes the same
\* call and the second AttributeError leaves the method
ManagerGenerate(story, token, outcome, cache, counts, reset_time, current_time) ==
    Bind(GenerateComprehensive(story, token, outcome, cache, counts,
                               reset_time, current_time), LAMBDA enh :
    Bind([cache |-> enh.cache, counts |-> enh.counts,
          reset_time |-> enh.reset_time, remote |-> enh.remote], LAMBDA base :
        IF /\ Truthy(enh.result)
           /\ Len(JsonLoads(enh.result)) >= ManagerMinScenarios
        THEN base @@ [result |-> enh.result, raised |-> FALSE,
                      trace |-> enh.trace]
        ELSE Bind(CursorGenerateTestScenarios(story), LAMBDA fallback_result :
                 IF Truthy(fallback_result)
                 THEN base @@ [result |-> fallback_result, raised |-> FALSE,
                               trace |-> enh.trace \o <<"local">>]
                 ELSE base @@ [result |-> EmptyString, raised |-> TRUE,
                               trace |-> enh.trace
                                             \o <<"local", "static">>])))

(***************************************************************************)
(* StoryTestGenerator.generate_ai_scenarios                                *)
(***************************************************************************)
HighComplexityKeywords == {"integration", "api", "complex", "multiple",
                           "system", "workflow", "process"}
MediumComplexityKeywords == {"user", "create", "update", "delete", "manage",
                             "handle"}

\* _calculate_optimal_scenario_count
CalculateOptimalScenarioCount(summary) ==
    LET words == TextWords(summary)
        length_factor == CharLen(words)
        high_score == Cardinality(HighComplexityKeywords \cap WordSet(words))
        medium_score ==
            Cardinality(MediumComplexityKeywords \cap WordSet(words))
    IN  IF high_score >= 2 \/ length_factor > LongSummaryChars THEN HighCount
        ELSE IF \/ high_score >= 1
                \/ medium_score >= 2
                \/ length_factor > MediumSummaryChars THEN MediumCount
        ELSE LowCount

\* generate_ai_scenarios for a story the tracker returned. A None summary
\* raises in summary.lower() before the manager is called; the handler then
\* slices by the unassigned optimal_count and ends in 'return []'.
GenerateAiScenarios(story, token, outcome, cache, counts, reset_time, current_time) ==
    IF StorySummary(story) = NoneValue
    THEN [cache |-> cache, counts |-> counts, reset_time |-> reset_time,
          result |-> EmptyString, raised |-> FALSE, remote |-> << >>,
          trace |-> <<"local">>, returned |-> << >>]
    ELSE
    Bind(CalculateOptimalScenarioCount(StorySummary(story)),
         LAMBDA optimal_count :
    Bind(ManagerGenerate(story, token, outcome, cache, counts, reset_time,
                         current_time), LAMBDA mgr :
        IF mgr.raised
        THEN mgr @@ [returned |->
                Prefix(JsonLoads(CursorGenerateTestScenarios(story)),
                       optimal_count)]
        ELSE mgr @@ [returned |->
                Prefix(JsonLoads(mgr.result), optimal_count)]))

(***************************************************************************)
(* State                                                                   *)
(***************************************************************************)
\* Jira before the run: story PLA-1 has one linked test issue (key 0),
\* story PLA-2 has none; the test created for scenario i gets key i
StoryKeys == {"PLA-1", "PLA-2"}
LinkedAtStart == [s \in StoryKeys |-> IF s = "PLA-1" THEN {0} ELSE {}]

VARIABLES
    scenario_cache,     \* EnhancedAIClient.scenario_cache
    request_counts,     \* EnhancedAIClient.request_counts
    last_reset_time,    \* EnhancedAIClient.last_reset_time
    now,                \* time.time()
    groq_token,         \* config['groq_token'] is set
    service_health,     \* AIServiceManager.service_health
    last,               \* what the most recent generation call did
    rl_call,            \* the most recent direct _check_rate_limit call
    window_calls,       \* _check_rate_limit calls per service in this window
    t_pc,               \* per thread: position inside _check_rate_limit
    t_time,             \* per thread: its local current_time
    t_count,            \* per thread: its local current_count
    admitted,           \* calls answered True in this window
    fn_name,            \* the function applied to fn_in, "none" before
    fn_in,              \* the argument of a function called on its own
    fn_out,             \* what the function returned
    manager_request_counts, \* AIServiceManager.request_counts
    call_pc,            \* where a generate call followed step by step stands
    call_wait,          \* seconds the call has waited for requests.post
    call_fill,          \* records in the list the text fallback fills
    g_pc,               \* per thread: position inside generate_comprehensive
    g_story,            \* per thread: the story it was called with
    g_result,           \* per thread: the string it is about to cache
    j_pc,               \* position inside generate_and_create_scenarios
    j_run,              \* its arguments and what get_issue returned
    j_ret,              \* its return value
    j_scenarios,        \* len(scenarios)
    s_pc,               \* per scenario: position inside the creation
    link_posts,         \* per scenario: POSTs to rest/api/3/issueLink
    jira_links,         \* Jira: per story, the keys of the linked issues
    generation_calls,   \* calls of generate_ai_scenarios
    issues_created      \* Jira: test issues created by this run

genVars == <<scenario_cache, groq_token, service_health, last>>
rateVars == <<request_counts, last_reset_time>>
histVars == <<rl_call, window_calls>>
threadVars == <<t_pc, t_time, t_count, admitted>>
pureVars == <<fn_name, fn_in, fn_out>>
callVars == <<call_pc, call_wait, call_fill>>
cacheVars == <<g_pc, g_story, g_result>>
jiraVars == <<j_pc, j_run, j_ret, j_scenarios, s_pc, link_posts, jira_links,
              generation_calls, issues_created>>
otherVars == <<manager_request_counts, cacheVars, jiraVars>>
vars == <<scenario_cache, request_counts, last_reset_time, now, groq_token,
          service_health, last, rl_call, window_calls, t_pc, t_time, t_count,
          admitted, fn_name, fn_in, fn_out, manager_request_counts, call_pc,
          call_wait, call_fill, g_pc, g_story, g_result, j_pc, j_run, j_ret,
          j_scenarios, s_pc, link_posts, jira_links, generation_calls,
          issues_created>>

HealthTiers == {"enhanced_ai", "local", "huggingface", "manual"}
Threads == {1, 2}

\* the valid, deduplicated records the remote tier produced in a call
RemoteRecords(remote) == ValidateAndEnhanceScenarios(remote)

\* the record of a call: entry point, story, whether it raised, the string
\* the manager returned, the tiers used in order, the list the generator
\* returned, the health table before the call, the kind of remote answer,
\* how many valid deduplicated records the remote tier produced and whether
\* the manager returned exactly those
Observe(entry, story, outcome, r, returned, health) ==
    [entry |-> entry, story |-> story, raised |-> r.raised,
     result |-> r.result, trace |-> r.trace, returned |-> returned,
     health |-> health, remote_kind |-> outcome.kind,
     remote_text |-> IF outcome.content.kind = "json" THEN "json"
                     ELSE IF outcome.content.lines # << >> THEN "keyword_lines"
                     ELSE "no_keyword_line",
     remote_count |-> Len(RemoteRecords(r.remote)),
     remote_returned |-> /\ ~r.raised
                         /\ Truthy(r.result)
                         /\ JsonLoads(r.result) = RemoteRecords(r.remote)]

NoCall == [entry |-> "none", story |-> StoryNoFields, raised |-> FALSE,
           result |-> EmptyString, trace |-> << >>, returned |-> << >>,
           health |-> [t \in HealthTiers |-> TRUE],
           remote_kind |-> "not_sent", remote_text |-> "no_keyword_line",
           remote_count |-> 0,
           remote_returned |-> FALSE]

NoRateCall ==
    [service |-> "none", ret |-> FALSE, expired |-> FALSE, prev_ret |-> TRUE]

\* the state after AIServiceManager.__init__ / EnhancedAIClient.__init__
ProgramInit ==
    /\ scenario_cache = EmptyDict
    /\ request_counts = EmptyDict
    /\ last_reset_time = 0
    /\ now = 0
    /\ groq_token \in BOOLEAN
    /\ service_health = [t \in HealthTiers |-> TRUE]
    /\ last = NoCall
    /\ rl_call = NoRateCall
    /\ window_calls = EmptyDict
    /\ t_pc = [t \in Threads |-> "idle"]
    /\ t_time = [t \in Threads |-> 0]
    /\ t_count = [t \in Threads |-> 0]
    /\ admitted = 0
    /\ manager_request_counts = EmptyDict
    /\ call_pc = "not_started"
    /\ call_wait = 0
    /\ call_fill = 0
    /\ g_pc = [t \in Threads |-> "idle"]
    /\ g_story = [t \in Threads |-> StoryNoFields]
    /\ g_result = [t \in Threads |-> EmptyString]
    /\ j_pc = "idle"
    /\ j_run = [story |-> "PLA-2", manual |-> FALSE, force |-> FALSE,
                found |-> FALSE]
    /\ j_ret = FALSE
    /\ j_scenarios = 0
    /\ s_pc = [i \in 1..MaxScenarios |-> "pending"]
    /\ link_posts = [i \in 1..MaxScenarios |-> 0]
    /\ jira_links = LinkedAtStart
    /\ generation_calls = 0
    /\ issues_created = {}

NoValue == "none"

\* AIServiceManager.get_service_status: copies of the manager's own fields
GetServiceStatus ==
    [service_health |-> service_health,
     request_counts |-> manager_request_counts]

\* no function has been called on its own
Init ==
    /\ ProgramInit
    /\ fn_name = "none"
    /\ fn_in = NoValue
    /\ fn_out = NoValue

(***************************************************************************)
(* Generation calls                                                        *)
(***************************************************************************)
\* AIServiceManager.generate_test_scenarios(story)
CallManager(story, outcome) ==
    \E r \in {ManagerGenerate(story, groq_token, outcome, scenario_cache,
                            request_counts, last_reset_time, now)} :
        /\ scenario_cache' = r.cache
        /\ request_counts' = r.counts
        /\ last_reset_time' = r.reset_time
        /\ last' = Observe("manager", story, outcome, r, << >>,
                            service_health)
        /\ UNCHANGED <<now, groq_token, service_health>>
        /\ UNCHANGED <<histVars, threadVars>>
        /\ UNCHANGED <<pureVars, otherVars, callVars>>

\* StoryTestGenerator.generate_ai_scenarios(story_key) for the story the
\* tracker returns
CallGenerator(story, outcome) ==
    \E r \in {GenerateAiScenarios(story, groq_token, outcome,
                                scenario_cache, request_counts,
                                last_reset_time, now)} :
        /\ scenario_cache' = r.cache
        /\ request_counts' = r.counts
        /\ last_reset_time' = r.reset_time
        /\ last' = Observe("generator", story, outcome, r, r.returned,
                            service_health)
        /\ UNCHANGED <<now, groq_token, service_health>>
        /\ UNCHANGED <<histVars, threadVars>>
        /\ UNCHANGED <<pureVars, otherVars, callVars>>

TickSteps == {1800, 1801}
WindowTick == WindowSeconds + 1

\* time passes
Tick(d) ==
    /\ now + d <= MaxTime
    /\ now' = now + d
    /\ UNCHANGED <<genVars, rateVars, histVars, threadVars>>
    /\ UNCHANGED <<pureVars, otherVars, callVars>>

\* requests.post is reached: token set, no exception before the cache
\* lookup, cache miss, rate budget left
RequestReached(story) ==
    /\ groq_token
    /\ ~CacheKeyRaises(story)
    /\ GenerateCacheKey(story) \notin DOMAIN scenario_cache
    /\ CheckRateLimit(request_counts, last_reset_time, now, "groq").ret

\* the answers the remote service may give to this call
OutcomesFor(story) ==
    IF RequestReached(story) THEN RemoteOutcomes ELSE {NotSent}

ManagerStep == \E story \in Stories : \E outcome \in OutcomesFor(story) :
                   CallManager(story, outcome)
GeneratorStep == \E story \in Stories : \E outcome \in OutcomesFor(story) :
                     CallGenerator(story, outcome)
TickStep == Tick(WindowTick)
FineTickStep == \E d \in TickSteps : Tick(d)

Next == ManagerStep \/ GeneratorStep \/ TickStep

Spec == Init /\ [][Next]_vars

(***************************************************************************)
(* Direct calls of _check_rate_limit                                       *)
(***************************************************************************)
RateServices == {"groq", "ollama_local"}

\* how many calls of a service are explored in one window
CallCap(service) ==
    IF service = "groq" THEN GroqRateLimit + MaxOver ELSE MaxSideCalls

\* EnhancedAIClient._check_rate_limit(service), called at time now
DirectRateCall(service) ==
    LET rl == CheckRateLimit(request_counts, last_reset_time, now, service)
        expired == now - last_reset_time > WindowSeconds
        calls == IF expired THEN EmptyDict ELSE window_calls
    IN  /\ DictGet(calls, service, 0) < CallCap(service)
        /\ request_counts' = rl.counts
        /\ last_reset_time' = rl.reset_time
        /\ window_calls' = DictSet(calls, service,
                                   DictGet(calls, service, 0) + 1)
        /\ rl_call' = [service |-> service, ret |-> rl.ret,
                       expired |-> expired,
                       prev_ret |-> IF rl_call.service = service
                                    THEN rl_call.ret ELSE TRUE]
        /\ UNCHANGED <<now, genVars, threadVars>>
        /\ UNCHANGED <<pureVars, otherVars, callVars>>

RateCallStep == \E service \in RateServices : DirectRateCall(service)

NextRate == RateCallStep \/ FineTickStep

SpecRate == Init /\ [][NextRate]_vars

(***************************************************************************)
(* Generation calls next to other users of the groq budget                 *)
(***************************************************************************)
\* the remote service is down or answers with prose
BudgetOutcomes ==
    { [kind |-> "exception", content |-> ProseContent(<< >>)],
      [kind |-> "ok", content |-> ProseContent(<< >>)] }

BudgetOutcomesFor(story) ==
    IF RequestReached(story) THEN BudgetOutcomes ELSE {NotSent}

BudgetManagerStep ==
    \E story \in Stories : \E outcome \in BudgetOutcomesFor(story) :
        CallManager(story, outcome)

GroqRateCallStep == DirectRateCall("groq")

NextBudget == BudgetManagerStep \/ GroqRateCallStep \/ TickStep

SpecBudget == Init /\ [][NextBudget]_vars

(***************************************************************************)
(* Two threads inside _check_rate_limit('groq')                            *)
(***************************************************************************)
GroqCount == DictGet(request_counts, "groq", 0)

\* a call that runs from its first to its last statement without a switch
\* of threads
UninterruptedCall ==
    LET rl == CheckRateLimit(request_counts, last_reset_time, now, "groq")
    IN  /\ \A t \in Threads : t_pc[t] = "idle"
        /\ admitted < GroqRateLimit + MaxOver
        /\ request_counts' = rl.counts
        /\ last_reset_time' = rl.reset_time
        /\ admitted' = IF rl.ret THEN admitted + 1 ELSE admitted
        /\ UNCHANGED <<now, genVars, histVars, t_pc, t_time, t_count>>
        /\ UNCHANGED <<pureVars, otherVars, callVars>>

\* current_time = time.time()
ThreadEnter(t) ==
    /\ t_pc[t] = "idle"
    /\ GroqRateLimit - GroqCount <= MaxSlots
    /\ admitted < GroqRateLimit + MaxOver
    /\ t_time' = [t_time EXCEPT ![t] = now]
    /\ t_pc' = [t_pc EXCEPT ![t] = "window"]
    /\ UNCHANGED <<now, genVars, rateVars, histVars, t_count, admitted>>
    /\ UNCHANGED <<pureVars, otherVars, callVars>>

\* if current_time - self.last_reset_time > 3600: reset
ThreadWindow(t) ==
    /\ t_pc[t] = "window"
    /\ IF t_time[t] - last_reset_time > WindowSeconds
       THEN /\ request_counts' = EmptyDict
            /\ last_reset_time' = t_time[t]
            /\ admitted' = 0
       ELSE UNCHANGED <<rateVars, admitted>>
    /\ t_pc' = [t_pc EXCEPT ![t] = "read"]
    /\ UNCHANGED <<now, genVars, histVars, t_time, t_count>>
    /\ UNCHANGED <<pureVars, otherVars, callVars>>

\* current_count = self.request_counts.get(service, 0)
ThreadRead(t) ==
    /\ t_pc[t] = "read"
    /\ t_count' = [t_count EXCEPT ![t] = GroqCount]
    /\ t_pc' = [t_pc EXCEPT ![t] = "compare"]
    /\ UNCHANGED <<now, genVars, rateVars, histVars, t_time, admitted>>
    /\ UNCHANGED <<pureVars, otherVars, callVars>>

\* if current_count >= rate_limit: return False
ThreadCompare(t) ==
    /\ t_pc[t] = "compare"
    /\ IF t_count[t] >= RateLimit("groq")
       THEN /\ t_pc' = [t_pc EXCEPT ![t] = "idle"]
            /\ t_count' = [t_count EXCEPT ![t] = 0]
       ELSE /\ t_pc' = [t_pc EXCEPT ![t] = "write"]
            /\ UNCHANGED t_count
    /\ UNCHANGED <<now, genVars, rateVars, histVars, t_time, admitted>>
    /\ UNCHANGED <<pureVars, otherVars, callVars>>

\* self.request_counts[service] = current_count + 1; return True
ThreadWrite(t) ==
    /\ t_pc[t] = "write"
    /\ request_counts' = DictSet(request_counts, "groq", t_count[t] + 1)
    /\ admitted' = admitted + 1
    /\ t_pc' = [t_pc EXCEPT ![t] = "idle"]
    /\ t_count' = [t_count EXCEPT ![t] = 0]
    /\ UNCHANGED <<now, genVars, histVars, last_reset_time, t_time>>
    /\ UNCHANGED <<pureVars, otherVars, callVars>>

EnterStep == \E t \in Threads : ThreadEnter(t)
WindowStep == \E t \in Threads : ThreadWindow(t)
ReadStep == \E t \in Threads : ThreadRead(t)
CompareStep == \E t \in Threads : ThreadCompare(t)
WriteStep == \E t \in Threads : ThreadWrite(t)

NextConc ==
    \/ UninterruptedCall
    \/ EnterStep
    \/ WindowStep
    \/ ReadStep
    \/ CompareStep
    \/ WriteStep

SpecConc == Init /\ [][NextConc]_vars

(***************************************************************************)
(* The validator called on one candidate                                   *)
(***************************************************************************)
SeverityLabels == {"S1 - Critical", "S2 - Major", "S3 - Moderate", "S4 - Low"}
PriorityLabels == {"P1 - Critical", "P2 - High", "P3 - Medium", "P4 - Low"}

\* candidates as a remote model may write them: severity and priority
\* absent (""), a label, or free text
ValidatorInputs ==
    { Scenario(t, d, st, sev, pri) :
        t \in {<<"verify", "login", "page", "loads", "fast">>,
               <<"cart", "total", "is", "shown">>, <<"test">>,
               <<"1.", "check", "cart", "total">>,
               <<"**", "cart", "total", "**">>,
               <<"1.", "test", "case">>, <<"**", "test", "scenario", "**">>,
               <<"**", "-", "**", "-", "**">>},
        d \in {<< >>, <<"cart", "total">>},
        st \in {NoSteps, <<"1. Open the login page">>},
        sev \in {"", "S1 - Critical", "urgent"},
        pri \in {"", "P1 - Critical", "asap"} }

InitValidate ==
    /\ ProgramInit
    /\ fn_name = "none"
    /\ fn_in \in ValidatorInputs
    /\ fn_out = NoValue

\* the loop of _improved_parse_scenarios over a JSON array of one element
ApplyValidateAndClean ==
    /\ fn_name = "none"
    /\ fn_name' = "validate_and_clean"
    /\ fn_out' = CleanAll(<<fn_in>>)
    /\ UNCHANGED <<fn_in, now, genVars, rateVars, histVars, threadVars>>
    /\ UNCHANGED <<otherVars, callVars>>

\* _validate_and_enhance_scenarios on a list of one record
ApplyValidateAndEnhance ==
    /\ fn_name = "none"
    /\ fn_name' = "validate_and_enhance"
    /\ fn_out' = ValidateAndEnhanceScenarios(<<fn_in>>)
    /\ UNCHANGED <<fn_in, now, genVars, rateVars, histVars, threadVars>>
    /\ UNCHANGED <<otherVars, callVars>>

NextValidate == ApplyValidateAndClean \/ ApplyValidateAndEnhance

SpecValidate == InitValidate /\ [][NextValidate]_vars

(***************************************************************************)
(* AIServiceManager._ensure_scenario_limits called on a list               *)
(***************************************************************************)
BasicSteps == <<"1. Set up test environment", "2. Execute test steps",
                "3. Verify expected results", "4. Clean up test data">>

\* the words of story.get('fields', {}).get('summary', 'Test Story') as the
\* f-string prints it
BasicTitleWords(story) ==
    IF ~story.has_fields THEN <<"test", "story">>
    ELSE IF story.summary = NoneValue THEN <<"none">>
    ELSE TextWords(story.summary)

\* _generate_basic_scenario(story, index): three templates in rotation
GenerateBasicScenario(story, index) ==
    LET kind == (index - 1) % 3
        n == IF index <= Len(Digits) THEN Digits[index] ELSE "n"
        title == BasicTitleWords(story)
    IN  CASE kind = 0 ->
              Scenario(<<"verify">> \o title \o <<"-", "functional", "test", n>>,
                       <<"test", "core", "functionality", "of">> \o title,
                       BasicSteps, "S3 - Moderate", "P3 - Medium")
          [] kind = 1 ->
              Scenario(<<"verify">> \o title \o <<"-", "error", "handling", n>>,
                       <<"test", "error", "handling", "for">> \o title,
                       BasicSteps, "S2 - Major", "P2 - High")
          [] OTHER ->
              Scenario(<<"verify">> \o title \o <<"-", "boundary", "test", n>>,
                       <<"test", "boundary", "conditions", "for">> \o title,
                       BasicSteps, "S3 - Moderate", "P3 - Medium")

\* scenario_score of _prioritize_scenarios: unknown labels count 3
ScenarioScore(scenario) ==
    (CASE scenario.priority = "P1 - Critical" -> 1
       [] scenario.priority = "P2 - High" -> 2
       [] scenario.priority = "P3 - Medium" -> 3
       [] scenario.priority = "P4 - Low" -> 4
       [] OTHER -> 3)
    + (CASE scenario.severity = "S1 - Critical" -> 1
         [] scenario.severity = "S2 - Major" -> 2
         [] scenario.severity = "S3 - Moderate" -> 3
         [] scenario.severity = "S4 - Low" -> 4
         [] OTHER -> 3)

RECURSIVE InsertByScore(_, _)
\* stable insertion: x goes after every element whose score is not larger
InsertByScore(sorted, x) ==
    IF sorted = << >> THEN <<x>>
    ELSE IF ScenarioScore(x) < ScenarioScore(Head(sorted))
    THEN <<x>> \o sorted
    ELSE <<Head(sorted)>> \o InsertByScore(Tail(sorted), x)

RECURSIVE SortByScore(_, _)
SortByScore(todo, sorted) ==
    IF todo = << >> THEN sorted
    ELSE SortByScore(Tail(todo), InsertByScore(sorted, Head(todo)))

\* _prioritize_scenarios: sorted(scenarios, key=scenario_score)
PrioritizeScenarios(scenarios) == SortByScore(scenarios, << >>)

RECURSIVE PadToMinimum(_, _, _)
\* while len(scenarios) < min_scenarios: append a basic scenario
PadToMinimum(scenarios, story, min_scenarios) ==
    IF Len(scenarios) < min_scenarios
    THEN PadToMinimum(
             Append(scenarios,
                    GenerateBasicScenario(story, Len(scenarios) + 1)),
             story, min_scenarios)
    ELSE scenarios

\* variant: 'if len(scenarios) < max_scenarios' appends one basic scenario
EnsureScenarioLimitsAppendOne(scenarios, story, min_scenarios, max_scenarios) ==
    IF Len(scenarios) < max_scenarios
    THEN Append(scenarios, GenerateBasicScenario(story, Len(scenarios) + 1))
    ELSE Prefix(PrioritizeScenarios(scenarios), max_scenarios)

\* _ensure_scenario_limits
EnsureScenarioLimits(scenarios, story, min_scenarios, max_scenarios) ==
    Bind(PadToMinimum(scenarios, story, min_scenarios), LAMBDA padded :
        IF Len(padded) > max_scenarios
        THEN Prefix(PrioritizeScenarios(padded), max_scenarios)
        ELSE padded)

\* records with different scores, one with labels that are not in the maps
LimitRecords ==
    { Scenario(<<"verify", "login", "page", "loads", "fast">>,
               <<"login", "is", "fast">>, BasicSteps,
               "S3 - Moderate", "P3 - Medium"),
      Scenario(<<"check", "logout", "works">>, <<"logout">>, BasicSteps,
               "S1 - Critical", "P1 - Critical"),
      Scenario(<<"cart", "total", "is", "shown">>, <<"cart", "total">>,
               BasicSteps, "S3 - Moderate", "P2 - High"),
      Scenario(<<"verify", "order", "history">>, <<"order", "history">>,
               BasicSteps, "urgent", "P4 - Low") }

ListsUpTo(n) == UNION { [1..k -> LimitRecords] : k \in 0..n }

LimitInputs ==
    { [scenarios |-> l, min |-> lo, max |-> hi] :
        l \in ListsUpTo(MaxList),
        lo \in 0..MaxLimit, hi \in 0..MaxLimit }

InitLimits ==
    /\ ProgramInit
    /\ fn_name = "none"
    /\ fn_in \in { x \in LimitInputs : x.min <= x.max }
    /\ fn_out = NoValue

\* _ensure_scenario_limits(scenarios, story)
ApplyEnsureLimits ==
    /\ fn_name = "none"
    /\ fn_name' = "ensure_limits"
    /\ fn_out' = EnsureScenarioLimits(fn_in.scenarios, StoryOrders,
                                      fn_in.min, fn_in.max)
    /\ UNCHANGED <<fn_in, now, genVars, rateVars, histVars, threadVars>>
    /\ UNCHANGED <<otherVars, callVars>>

\* _ensure_scenario_limits on the list the first call returned
ApplyEnsureLimitsAgain ==
    /\ fn_name = "ensure_limits"
    /\ fn_name' = "ensure_limits_again"
    /\ fn_out' = EnsureScenarioLimits(fn_out, StoryOrders,
                                      fn_in.min, fn_in.max)
    /\ UNCHANGED <<fn_in, now, genVars, rateVars, histVars, threadVars>>
    /\ UNCHANGED <<otherVars, callVars>>

NextLimits == ApplyEnsureLimits \/ ApplyEnsureLimitsAgain

SpecLimits == InitLimits /\ [][NextLimits]_vars

(***************************************************************************)
(* The repair cascade and the remote tier on response texts of every shape *)
(***************************************************************************)
\* the elements a response array is built from: an acceptable candidate, a
\* candidate whose title is rejected, a number, and an object whose title
\* is a number
ParseElements ==
    { [shape |-> "object", cand |-> RemotePool[1]],
      [shape |-> "object", cand |-> RemoteCandidate(<<"test">>, << >>)],
      [shape |-> "number", cand |-> NoCandidate],
      [shape |-> "bad_title", cand |-> NoCandidate] }

RECURSIVE ElementLists(_)
ElementLists(n) ==
    IF n = 0 THEN { << >> }
    ELSE ElementLists(n - 1)
         \cup { Append(l, e) : l \in { x \in ElementLists(n - 1) : Len(x) = n - 1 },
                               e \in ParseElements }

\* the titles the text fallback may find on keyword lines
KeywordLines == { << >>, << <<"check", "the", "logout", "button">> >> }

\* response texts: the empty string and prose (with and without keyword
\* lines), and JSON arrays of at most MaxParse elements
ParseInputs ==
    { ProseContent(lines) : lines \in KeywordLines }
    \cup { JsonContent(elems, lines) :
             elems \in ElementLists(MaxParse), lines \in KeywordLines }

InitParse ==
    /\ ProgramInit
    /\ fn_name = "none"
    /\ fn_in \in ParseInputs
    /\ fn_out = NoValue

\* _improved_parse_scenarios(response_text)
ApplyParse ==
    /\ fn_name = "none"
    /\ fn_name' = "parse"
    /\ fn_out' = ImprovedParseScenarios(fn_in)
    /\ UNCHANGED <<fn_in, now, genVars, rateVars, histVars, threadVars>>
    /\ UNCHANGED <<otherVars, callVars>>

\* _ultra_fast_generation on a fresh client when the service answers 200
\* with the text
ApplyUltraFast ==
    /\ fn_name = "none"
    /\ fn_name' = "ultra_fast"
    /\ fn_out' = UltraFastGeneration(groq_token, [kind |-> "ok", content |-> fn_in],
                                     EmptyDict, 0, 0)
    /\ UNCHANGED <<fn_in, now, genVars, rateVars, histVars, threadVars>>
    /\ UNCHANGED <<otherVars, callVars>>

NextParse == ApplyParse \/ ApplyUltraFast

SpecParse == InitParse /\ [][NextParse]_vars

(***************************************************************************)
(* One generate call followed step by step                                 *)
(***************************************************************************)
\* NotStarted -> TryingTier(remote) -> TryingTier(local) -> Accepted or
\* AllTiersExhausted -> returned. fn_in holds the story of the call, fn_out
\* what requests.post gave.
TimedOut == [kind |-> "exception", content |-> ProseContent(<< >>)]

\* the text of the answer ends in _improved_text_to_scenarios
EndsInTextFallback(content) ==
    \/ content.kind # "json"
    \/ content.elems = << >>
    \/ \E i \in DOMAIN content.elems : content.elems[i].shape = "bad_title"

\* generate_comprehensive_test_scenarios has a result without the local
\* tier (a cache hit, or at least EnhancedMinScenarios remote scenarios) and
\* the manager finds at least ManagerMinScenarios records in it
RemoteTaken ==
    /\ ~CacheKeyRaises(fn_in)
    /\ IF GenerateCacheKey(fn_in) \in DOMAIN scenario_cache
       THEN Len(JsonLoads(scenario_cache[GenerateCacheKey(fn_in)]))
                >= ManagerMinScenarios
       ELSE \E fast \in {UltraFastGeneration(groq_token, fn_out, request_counts,
                                             last_reset_time, now).scenarios} :
               /\ Len(fast) >= EnhancedMinScenarios
               /\ Len(ValidateAndEnhanceScenarios(fast)) >= ManagerMinScenarios

\* cursor_ai.generate_test_scenarios has at least one record for the story
LocalHasRecords(story) ==
    /\ story.has_fields
    /\ CursorText(story) # ""
    /\ RuleEngine(CursorText(story)) # << >>

InitTerm ==
    /\ ProgramInit
    /\ fn_name = "none"
    /\ fn_in \in Stories
    /\ fn_out = NotSent

\* generate_test_scenarios is entered: the request is sent, or the remote
\* tier is left out (no token, cache hit, budget used up, exception)
StartCall ==
    /\ call_pc = "not_started"
    /\ fn_name' = "generate"
    /\ fn_out' = NotSent
    /\ call_pc' = IF RequestReached(fn_in) THEN "waiting" ELSE "deciding"
    /\ call_wait' = 0
    /\ call_fill' = 0
    /\ UNCHANGED <<fn_in, now, genVars, rateVars, histVars, threadVars>>
    /\ UNCHANGED otherVars

\* a second passes while requests.post waits for the service
WaitTick ==
    /\ call_pc = "waiting"
    /\ call_wait < RequestTimeout
    /\ call_wait' = call_wait + 1
    /\ UNCHANGED <<call_pc, call_fill, pureVars, otherVars>>
    /\ UNCHANGED <<now, genVars, rateVars, histVars, threadVars>>

\* the answers followed step by step: a failure, an error status, prose
\* with and without a keyword line, and arrays of up to MaxRemote elements
TermOutcomes ==
    { [kind |-> "exception", content |-> ProseContent(<< >>)],
      [kind |-> "http_error", content |-> ProseContent(<< >>)] }
    \cup { [kind |-> "ok", content |-> ProseContent(lines)] :
              lines \in { << >>, << <<"check", "the", "logout", "button">> >> } }
    \cup { [kind |-> "ok",
            content |-> JsonContent(ObjectElements(Repeat(RemotePool[1], n)),
                                    << >>)] : n \in 0..MaxRemote }

\* the service answers or the connection fails
RemoteAnswer ==
    /\ call_pc = "waiting"
    /\ \E outcome \in TermOutcomes :
          /\ fn_out' = outcome
          /\ call_pc' = IF outcome.kind = "ok" THEN "parsing" ELSE "deciding"
          /\ call_fill' = IF outcome.kind = "ok"
                             /\ ~EndsInTextFallback(outcome.content)
                          THEN Len(ImprovedParseScenarios(outcome.content).list)
                          ELSE IF outcome.kind = "ok"
                          THEN Len(outcome.content.lines)
                          ELSE 0
    /\ UNCHANGED <<fn_name, fn_in, call_wait, otherVars>>
    /\ UNCHANGED <<now, genVars, rateVars, histVars, threadVars>>

\* requests.post without a timeout: the call waits until the service answers
RemoteTimeoutNever ==
    /\ call_pc = "waiting"
    /\ FALSE
    /\ UNCHANGED vars

\* requests.post(..., timeout=20) raises Timeout, _groq_ultra_fast returns []
RemoteTimeout ==
    /\ call_pc = "waiting"
    /\ call_wait = RequestTimeout
    /\ fn_out' = TimedOut
    /\ call_pc' = "deciding"
    /\ UNCHANGED <<fn_name, fn_in, call_wait, call_fill, otherVars>>
    /\ UNCHANGED <<now, genVars, rateVars, histVars, threadVars>>

\* one round of 'while len(scenarios) < 6: scenarios.append(...)'
PadStep ==
    /\ call_pc = "parsing"
    /\ EndsInTextFallback(fn_out.content)
    /\ call_fill < TextFallbackFill
    /\ call_fill' = call_fill + 1
    /\ UNCHANGED <<call_pc, call_wait, pureVars, otherVars>>
    /\ UNCHANGED <<now, genVars, rateVars, histVars, threadVars>>

\* _improved_parse_scenarios returns
ParseDone ==
    /\ call_pc = "parsing"
    /\ EndsInTextFallback(fn_out.content) => call_fill >= TextFallbackFill
    /\ call_pc' = "deciding"
    /\ UNCHANGED <<call_wait, call_fill, pureVars, otherVars>>
    /\ UNCHANGED <<now, genVars, rateVars, histVars, threadVars>>

\* 'if scenarios and len(scenarios) >= 3: return enhanced_result', else the
\* local tier is tried
DecideRemote ==
    /\ call_pc = "deciding"
    /\ call_pc' = IF RemoteTaken THEN "accepted" ELSE "local"
    /\ UNCHANGED <<call_wait, call_fill, pureVars, otherVars>>
    /\ UNCHANGED <<now, genVars, rateVars, histVars, threadVars>>

\* cursor_ai.generate_test_scenarios returns its string, which is returned
\* whether or not it holds a record
LocalTier ==
    /\ call_pc = "local"
    /\ call_pc' = IF LocalHasRecords(fn_in) THEN "accepted" ELSE "exhausted"
    /\ UNCHANGED <<call_wait, call_fill, pureVars, otherVars>>
    /\ UNCHANGED <<now, genVars, rateVars, histVars, threadVars>>

\* generate_test_scenarios returns
ReturnResult ==
    /\ call_pc \in {"accepted", "exhausted"}
    /\ call_pc' = "returned"
    /\ fn_name' = IF call_pc = "accepted" THEN "generate_accepted"
                  ELSE "generate_exhausted"
    /\ UNCHANGED <<fn_in, fn_out, call_wait, call_fill, otherVars>>
    /\ UNCHANGED <<now, genVars, rateVars, histVars, threadVars>>

NextTerm ==
    \/ StartCall \/ WaitTick \/ RemoteAnswer \/ RemoteTimeout \/ PadStep
    \/ ParseDone \/ DecideRemote \/ LocalTier \/ ReturnResult

\* the interpreter keeps running the call and time passes; whether the
\* caller calls and whether the service ever answers is left open
SpecTerm ==
    /\ InitTerm
    /\ [][NextTerm]_vars
    /\ WF_vars(WaitTick)
    /\ WF_vars(RemoteTimeout)
    /\ WF_vars(PadStep)
    /\ WF_vars(ParseDone)
    /\ WF_vars(DecideRemote)
    /\ WF_vars(LocalTier)
    /\ WF_vars(ReturnResult)

(***************************************************************************)
(* Two threads inside generate_comprehensive_test_scenarios                *)
(***************************************************************************)
\* the cache lookup, the generation and the cache write are separate
\* statements of the method and no lock is held between them
CacheOutcomes ==
    { [kind |-> "exception", content |-> ProseContent(<< >>)],
      [kind |-> "ok", content |-> ProseContent(<< >>)],
      [kind |-> "ok",
       content |-> JsonContent(ObjectElements(ItemsOf(<<2, 0, 2, 1>>)), << >>)] }

\* 'if self.cache_enabled and cache_key in self.scenario_cache: return ...';
\* a story whose key cannot be computed is answered by the local client
CacheLookup(t, story) ==
    /\ g_pc[t] = "idle"
    /\ DictGet(request_counts, "groq", 0) < MaxCacheCalls
    /\ g_story' = [g_story EXCEPT ![t] = story]
    /\ g_pc' = [g_pc EXCEPT ![t] =
                  IF CacheKeyRaises(story) THEN "idle"
                  ELSE IF GenerateCacheKey(story) \in DOMAIN scenario_cache
                  THEN "idle" ELSE "generating"]
    /\ UNCHANGED <<g_result, manager_request_counts, pureVars, callVars,
                   jiraVars>>
    /\ UNCHANGED <<now, genVars, rateVars, histVars, threadVars>>

\* the statements between the lookup and the write: the rate check, the
\* request, the local tier and the validation produce the string to return
CacheGenerate(t, outcome) ==
    /\ g_pc[t] = "generating"
    /\ \E r \in {GenerateComprehensive(g_story[t], groq_token, outcome, EmptyDict,
                                      request_counts, last_reset_time, now)} :
          /\ g_result' = [g_result EXCEPT ![t] = r.result]
          /\ request_counts' = r.counts
          /\ last_reset_time' = r.reset_time
    /\ g_pc' = [g_pc EXCEPT ![t] = "storing"]
    /\ UNCHANGED <<g_story, manager_request_counts, pureVars, callVars,
                   jiraVars>>
    /\ UNCHANGED <<now, genVars, histVars, threadVars>>

\* 'self.scenario_cache[cache_key] = result'
CacheStore(t) ==
    /\ g_pc[t] = "storing"
    /\ scenario_cache' = DictSet(scenario_cache, GenerateCacheKey(g_story[t]),
                                 g_result[t])
    /\ g_pc' = [g_pc EXCEPT ![t] = "idle"]
    /\ UNCHANGED <<g_story, g_result, manager_request_counts, pureVars, callVars,
                   jiraVars>>
    /\ UNCHANGED <<now, groq_token, service_health, last, rateVars, histVars,
                   threadVars>>

LookupStep == \E t \in Threads : \E story \in Stories : CacheLookup(t, story)
GenerateStep ==
    \E t \in Threads : \E outcome \in IF RequestReached(g_story[t])
                                      THEN CacheOutcomes ELSE {NotSent} :
        CacheGenerate(t, outcome)
StoreStep == \E t \in Threads : CacheStore(t)

NextCache == LookupStep \/ GenerateStep \/ StoreStep

SpecCache == Init /\ [][NextCache]_vars

(***************************************************************************)
(* generate_ai_scenarios on a remote answer longer than the target count   *)
(***************************************************************************)
TruncateWords == <<"alpha", "bravo", "charlie", "delta", "echo", "foxtrot",
                   "golf", "hotel", "india">>

TruncatePriorities == {"P0 - Live Issue", "P1 - Critical", "P3 - Medium"}

\* the position of a label in the Priority enum, P0 - Live Issue first
PriorityEnumRank(priority) ==
    CASE priority = "P0 - Live Issue" -> 0
      [] priority = "P1 - Critical" -> 1
      [] priority = "P2 - High" -> 2
      [] priority = "P3 - Medium" -> 3
      [] priority = "P4 - Low" -> 4

\* an answer of LowCount + MaxExtra candidates with titles that are not
\* similar to each other; priority[i] is the label of the i-th candidate
TruncateAnswer(priority) ==
    [i \in 1..(LowCount + MaxExtra) |->
        Scenario(<<"verify", "feature", TruncateWords[i]>>,
                 <<"feature", TruncateWords[i]>>, << >>, "", priority[i])]

TruncateInputs ==
    { [kind |-> "ok",
       content |-> JsonContent(ObjectElements(TruncateAnswer(priority)), << >>)] :
        priority \in [1..(LowCount + MaxExtra) -> TruncatePriorities] }

InitTruncate ==
    /\ ProgramInit
    /\ fn_name = "none"
    /\ fn_in \in TruncateInputs
    /\ fn_out = NoValue

\* generate_ai_scenarios for the order-history story on a fresh client: full
\* is the list the manager returned, returned the list after
\* 'scenarios = scenarios[:optimal_count]'
ApplyGenerateAi ==
    /\ fn_name = "none"
    /\ fn_name' = "generate_ai"
    /\ \E r \in {GenerateAiScenarios(StoryOrders, groq_token,
                                     IF groq_token THEN fn_in ELSE NotSent,
                                     EmptyDict, EmptyDict, 0, 0)} :
          fn_out' = [full |-> JsonLoads(r.result), returned |-> r.returned]
    /\ UNCHANGED <<fn_in, now, genVars, rateVars, histVars, threadVars>>
    /\ UNCHANGED <<otherVars, callVars>>

\* _prioritize_scenarios on the list the manager returned
ApplyPrioritize ==
    /\ fn_name = "generate_ai"
    /\ fn_name' = "prioritize"
    /\ fn_out' = [full |-> PrioritizeScenarios(fn_out.full),
                  returned |-> fn_out.returned]
    /\ UNCHANGED <<fn_in, now, genVars, rateVars, histVars, threadVars>>
    /\ UNCHANGED <<otherVars, callVars>>

NextTruncate == ApplyGenerateAi \/ ApplyPrioritize

SpecTruncate == InitTruncate /\ [][NextTruncate]_vars

(***************************************************************************)
(* The two deduplication functions called on lists                         *)
(***************************************************************************)
RECURSIVE FilterUniqueLoop(_, _, _)
\* the loop of _filter_unique_scenarios: existing_titles starts with the
\* titles of existing_scenarios and grows with every record that is kept
FilterUniqueLoop(new_scenarios, unique_scenarios, existing_titles) ==
    IF new_scenarios = << >> THEN unique_scenarios
    ELSE IF \E t \in existing_titles :
               SimilarityAbove(Head(new_scenarios).title, t,
                               FilterThresholdTenths)
    THEN FilterUniqueLoop(Tail(new_scenarios), unique_scenarios,
                          existing_titles)
    ELSE FilterUniqueLoop(Tail(new_scenarios),
                          Append(unique_scenarios, Head(new_scenarios)),
                          existing_titles \cup {Head(new_scenarios).title})

\* AIServiceManager._filter_unique_scenarios
FilterUniqueScenarios(new_scenarios, existing_scenarios) ==
    FilterUniqueLoop(new_scenarios, << >>,
                     {existing_scenarios[i].title :
                          i \in DOMAIN existing_scenarios})

\* records whose titles share 5 of 6 words (first and second) and 3 of 4
\* words (third and fourth)
DedupRecords ==
    { RemotePool[1], RemotePool[2], RemotePool[3],
      RemoteCandidate(<<"check", "logout", "works", "now">>, << >>) }

DedupInputs ==
    { [new |-> n, existing |-> e] :
        n \in UNION { [1..k -> DedupRecords] : k \in 0..MaxList },
        e \in UNION { [1..k -> DedupRecords] : k \in 0..MaxExisting } }

InitDedup ==
    /\ ProgramInit
    /\ fn_name = "none"
    /\ fn_in \in DedupInputs
    /\ fn_out = NoValue

\* _remove_duplicate_scenarios(scenarios)
ApplyRemoveDuplicates ==
    /\ fn_name = "none"
    /\ fn_name' = "remove_duplicates"
    /\ fn_out' = RemoveDuplicateScenarios(fn_in.new)
    /\ UNCHANGED <<fn_in, now, genVars, rateVars, histVars, threadVars>>
    /\ UNCHANGED <<otherVars, callVars>>

\* _filter_unique_scenarios(new_scenarios, existing_scenarios)
ApplyFilterUnique ==
    /\ fn_name = "none"
    /\ fn_name' = "filter_unique"
    /\ fn_out' = FilterUniqueScenarios(fn_in.new, fn_in.existing)
    /\ UNCHANGED <<fn_in, now, genVars, rateVars, histVars, threadVars>>
    /\ UNCHANGED <<otherVars, callVars>>

NextDedup == ApplyRemoveDuplicates \/ ApplyFilterUnique

SpecDedup == InitDedup /\ [][NextDedup]_vars

(***************************************************************************)
(* StoryTestGenerator.generate_and_create_scenarios against Jira           *)
(***************************************************************************)
\* Python values: a key as a string, and the issue object of a link
PyStr(key) == [type |-> "str", key |-> key]
PyDict(key) == [type |-> "dict", key |-> key]

\* self.scenario_manager.get_linked_test_issues(story_key):
\* TestScenarioManager defines no such method, the call raises
\* AttributeError
GetLinkedTestIssues(story_key, links) ==
    [raised |-> TRUE, tests |-> {}]

\* JiraClient.get_linked_test_cases: the linked issue objects, [] on error
GetLinkedTestCases(issue_key, links, failed) ==
    IF failed THEN {} ELSE {PyDict(k) : k \in links[issue_key]}

LinkOutcomes == {"ok", "issue_missing", "lookup_failed", "post_rejected"}

\* JiraClient.create_link: does it send the POST, and does it raise
CreateLink(inward_key, outward_key, links, outcome) ==
    IF outcome = "issue_missing"
    THEN [posted |-> FALSE, raised |-> TRUE]
    ELSE IF PyStr(inward_key) \in
                GetLinkedTestCases(outward_key, links,
                                   outcome = "lookup_failed")
    THEN [posted |-> FALSE, raised |-> FALSE]
    ELSE [posted |-> TRUE, raised |-> outcome = "post_rejected"]

RunArguments ==
    [story : StoryKeys, manual : BOOLEAN, force : BOOLEAN, found : BOOLEAN]

\* entry: validate_jira_key, get_issue(story_key)
StartRun(args) ==
    /\ j_pc = "idle"
    /\ j_run' = args
    /\ IF args.found
       THEN j_pc' = "checking" /\ j_ret' = j_ret
       ELSE j_pc' = "returned" /\ j_ret' = FALSE
    /\ UNCHANGED <<j_scenarios, s_pc, link_posts, jira_links,
                   generation_calls, issues_created>>
    /\ UNCHANGED <<now, genVars, rateVars, histVars, threadVars, pureVars>>
    /\ UNCHANGED <<manager_request_counts, cacheVars, callVars>>

\* the check for existing test cases; an exception leaves existing_tests = []
CheckExisting ==
    /\ j_pc = "checking"
    /\ \E r \in {GetLinkedTestIssues(j_run.story, jira_links)} :
          IF /\ ~r.raised
             /\ r.tests # {}
             /\ ~j_run.force
             /\ ~j_run.manual
          THEN j_pc' = "returned" /\ j_ret' = TRUE
          ELSE j_pc' = "generating" /\ j_ret' = j_ret
    /\ UNCHANGED <<j_run, j_scenarios, s_pc, link_posts, jira_links,
                   generation_calls, issues_created>>
    /\ UNCHANGED <<now, genVars, rateVars, histVars, threadVars, pureVars>>
    /\ UNCHANGED <<manager_request_counts, cacheVars, callVars>>

\* load_manual_scenarios or generate_ai_scenarios returns n scenarios
GenerateScenarios(n) ==
    /\ j_pc = "generating"
    /\ generation_calls' =
          IF j_run.manual THEN generation_calls ELSE generation_calls + 1
    /\ IF n = 0
       THEN j_pc' = "returned" /\ j_ret' = FALSE /\ j_scenarios' = j_scenarios
       ELSE j_pc' = "creating" /\ j_ret' = j_ret /\ j_scenarios' = n
    /\ UNCHANGED <<j_run, s_pc, link_posts, jira_links, issues_created>>
    /\ UNCHANGED <<now, genVars, rateVars, histVars, threadVars, pureVars>>
    /\ UNCHANGED <<manager_request_counts, cacheVars, callVars>>

Finished(i) == s_pc[i] \in {"done", "failed"}
Running(i) == s_pc[i] \in {"created", "manager_linked"}

\* _create_scenarios_sequential takes the scenarios in order; the pool of
\* _create_scenarios_parallel runs min(3, len(scenarios)) at a time
MayStart(i) ==
    IF j_scenarios > SequentialUpTo
    THEN Cardinality({k \in 1..j_scenarios : Running(k)}) < MaxWorkers
    ELSE \A k \in 1..(i - 1) : Finished(k)

\* create_test_scenario up to jira_client.create_issue
CreateIssue(i, created) ==
    /\ j_pc = "creating"
    /\ i \in 1..j_scenarios
    /\ s_pc[i] = "pending"
    /\ MayStart(i)
    /\ s_pc' = [s_pc EXCEPT ![i] = IF created THEN "created" ELSE "failed"]
    /\ issues_created' =
          IF created THEN issues_created \cup {i} ELSE issues_created
    /\ UNCHANGED <<j_pc, j_run, j_ret, j_scenarios, link_posts, jira_links,
                   generation_calls>>
    /\ UNCHANGED <<now, genVars, rateVars, histVars, threadVars, pureVars>>
    /\ UNCHANGED <<manager_request_counts, cacheVars, callVars>>

\* one call create_link(test_key, story_key); the callers catch what it raises
LinkCall(i, outcome, from, to) ==
    /\ j_pc = "creating"
    /\ i \in 1..j_scenarios
    /\ s_pc[i] = from
    /\ s_pc' = [s_pc EXCEPT ![i] = to]
    /\ \E r \in {CreateLink(i, j_run.story, jira_links, outcome)} :
          /\ link_posts' =
                [link_posts EXCEPT ![i] = IF r.posted THEN @ + 1 ELSE @]
          /\ jira_links' =
                IF r.posted /\ ~r.raised
                THEN [jira_links EXCEPT ![j_run.story] = @ \cup {i}]
                ELSE jira_links
    /\ UNCHANGED <<j_pc, j_run, j_ret, j_scenarios, generation_calls,
                   issues_created>>
    /\ UNCHANGED <<now, genVars, rateVars, histVars, threadVars, pureVars>>
    /\ UNCHANGED <<manager_request_counts, cacheVars, callVars>>

\* the link step at the end of create_test_scenario
ManagerLink(i, outcome) == LinkCall(i, outcome, "created", "manager_linked")

\* the link step of _create_scenarios_sequential / _create_scenarios_parallel
GeneratorLink(i, outcome) == LinkCall(i, outcome, "manager_linked", "done")

\* return len(created_scenarios) > 0
FinishRun ==
    /\ j_pc = "creating"
    /\ \A i \in 1..j_scenarios : Finished(i)
    /\ j_pc' = "returned"
    /\ j_ret' = (\E i \in 1..j_scenarios : s_pc[i] = "done")
    /\ UNCHANGED <<j_run, j_scenarios, s_pc, link_posts, jira_links,
                   generation_calls, issues_created>>
    /\ UNCHANGED <<now, genVars, rateVars, histVars, threadVars, pureVars>>
    /\ UNCHANGED <<manager_request_counts, cacheVars, callVars>>

StartStep == \E args \in RunArguments : StartRun(args)
GenerateScenariosStep == \E n \in 0..MaxScenarios : GenerateScenarios(n)
CreateIssueStep ==
    \E i \in 1..MaxScenarios : \E created \in BOOLEAN : CreateIssue(i, created)
ManagerLinkStep ==
    \E i \in 1..MaxScenarios : \E o \in LinkOutcomes : ManagerLink(i, o)
GeneratorLinkStep ==
    \E i \in 1..MaxScenarios : \E o \in LinkOutcomes : GeneratorLink(i, o)

NextJira ==
    \/ StartStep
    \/ CheckExisting
    \/ GenerateScenariosStep
    \/ CreateIssueStep
    \/ ManagerLinkStep
    \/ GeneratorLinkStep
    \/ FinishRun

SpecJira == Init /\ [][NextJira]_vars

(***************************************************************************)
(* Observations on the most recent call                                    *)
(***************************************************************************)
\* AIServiceManager.generate_test_scenarios ran and returned
ManagerReturned ==
    /\ \/ last.entry = "manager"
       \/ last.entry = "generator" /\ StorySummary(last.story) # NoneValue
    /\ ~last.raised

ManagerList == JsonLoads(last.result)

Occurrences(seq, x) == Cardinality({i \in 1..Len(seq) : seq[i] = x})
InTrace(x) == \E i \in 1..Len(last.trace) : last.trace[i] = x

(***************************************************************************)
(* C1: the list returned by AIServiceManager.generate_test_scenarios has   *)
(* at least one record, whatever the tiers did.                            *)
(***************************************************************************)
C1_NeverEmpty == ManagerReturned => Len(ManagerList) >= 1

(***************************************************************************)
(* C2: the list returned by generate_ai_scenarios is never shorter than    *)
(* the configured minimum (3) and never longer than the target count of    *)
(* the summary's complexity tier (6, 8 or 12).                             *)
(***************************************************************************)
C2_LengthWithinTarget ==
    (last.entry = "generator" /\ StorySummary(last.story) # NoneValue) =>
        /\ Len(last.returned) >= ConfigMinScenarios
        /\ Len(last.returned) <=
               CalculateOptimalScenarioCount(StorySummary(last.story))

C6_SecondCallPureLookup ==
    [][ ( /\ last.entry # "none"
          /\ last'.entry = last.entry
          /\ last'.story = last.story
          /\ now' = now
          /\ last' # last )
        => ( /\ last'.result = last.result
             /\ last'.trace = <<"cache_hit">>
             /\ request_counts' = request_counts ) ]_vars

(***************************************************************************)
(* C8: whenever the remote tier produced k >= 3 valid, deduplicated        *)
(* records, the manager returns exactly those records and no later tier    *)
(* runs.                                                                   *)
(***************************************************************************)
C8_AcceptAtThree ==
    (ManagerReturned /\ last.remote_count >= ManagerMinScenarios) =>
        /\ last.remote_returned
        /\ ~InTrace("local")
        /\ ~InTrace("static")

(***************************************************************************)
(* C9: within one call neither the remote service nor the local            *)
(* rule-based generator is invoked more than once.                         *)
(***************************************************************************)
C9_NoTierTwice ==
    /\ Occurrences(last.trace, "remote") <= 1
    /\ Occurrences(last.trace, "local") <= 1
    /\ Occurrences(last.trace, "static") <= 1

(***************************************************************************)
(* C10: no two records of a list returned by the manager have titles       *)
(* whose token-set Jaccard similarity exceeds the dedup threshold (0.8).   *)
(***************************************************************************)
C10_NoSimilarTitles ==
    ManagerReturned =>
        \A i, j \in 1..Len(ManagerList) :
            i < j => ~SimilarityAbove(ManagerList[i].title,
                                      ManagerList[j].title,
                                      DedupThresholdTenths)

(***************************************************************************)
(* C4: inside one window exactly the first L calls of                      *)
(* _check_rate_limit(service) return True and every later one returns      *)
(* False; a call made more than 3600 s after the window began returns True *)
(* and leaves the service's counter at 1.                                  *)
(***************************************************************************)
C4_RateBudget ==
    rl_call.service # "none" =>
        /\ rl_call.ret <=>
               window_calls[rl_call.service] <= RateLimit(rl_call.service)
        /\ rl_call.expired =>
               /\ rl_call.ret
               /\ window_calls[rl_call.service] = 1
               /\ DictGet(request_counts, rl_call.service, 0) = 1

\* the budget was used up, the previous call was refused, the window ran
\* out and the next call is admitted with the counter at 1
C4_Witness ==
    /\ rl_call.service = "groq"
    /\ ~rl_call.prev_ret
    /\ rl_call.expired
    /\ rl_call.ret
    /\ request_counts["groq"] = 1

(***************************************************************************)
(* C5: the calls of _check_rate_limit('groq') admitted within one window   *)
(* never exceed the limit, however the statements of two concurrent calls  *)
(* interleave.                                                             *)
(***************************************************************************)
C5_AdmittedWithinLimit == admitted <= RateLimit("groq")

(***************************************************************************)
(* C7: the tiers of a call run in the order remote, local, static; when    *)
(* the rate check answers False the remote request is not sent, the health *)
(* table is left as it was and the local tier runs in the same call.       *)
(***************************************************************************)
TierRank(x) ==
    CASE x = "cache_hit" -> 0
      [] x = "rate_ok" -> 1
      [] x = "rate_skip" -> 1
      [] x = "remote" -> 2
      [] x = "local" -> 3
      [] OTHER -> 4

C7_FixedOrderAndSkip ==
    /\ \A i, j \in 1..Len(last.trace) :
           i < j => TierRank(last.trace[i]) <= TierRank(last.trace[j])
    /\ InTrace("rate_skip") =>
           /\ ~InTrace("remote")
           /\ InTrace("local")
           /\ service_health = last.health

\* a call that met a used-up budget
C7_Witness ==
    /\ last.entry = "manager"
    /\ InTrace("rate_skip")
    /\ ~last.raised
    /\ DictGet(request_counts, "groq", 0) = GroqRateLimit

(***************************************************************************)
(* C11: every record that leaves _validate_and_clean_scenario or           *)
(* _validate_and_enhance_scenarios carries one of the four severity labels *)
(* and one of the four priority labels.                                    *)
(***************************************************************************)
C11_EnumLabels ==
    fn_name \in {"validate_and_clean", "validate_and_enhance"} =>
        \A i \in 1..Len(fn_out) :
            /\ fn_out[i].severity \in SeverityLabels
            /\ fn_out[i].priority \in PriorityLabels

(***************************************************************************)
(* C12: every record of a list returned by the manager has a non-empty     *)
(* title, a non-empty description and at least one step, whichever path    *)
(* produced the list.                                                      *)
(***************************************************************************)
C12_RecordsComplete ==
    ManagerReturned =>
        \A i \in 1..Len(ManagerList) :
            /\ ManagerList[i].title # << >>
            /\ ManagerList[i].description # << >>
            /\ Len(ManagerList[i].steps) >= 1

(***************************************************************************)
(* C13: for min <= max, _ensure_scenario_limits returns a list whose       *)
(* length is within [min, max]: a shorter list comes back with exactly min *)
(* records, a longer one with exactly max, any other with its own length.  *)
(***************************************************************************)
C13_LengthWithinLimits ==
    fn_name = "ensure_limits" =>
        /\ Len(fn_out) >= fn_in.min
        /\ Len(fn_out) <= fn_in.max
        /\ Len(fn_out) =
               IF Len(fn_in.scenarios) < fn_in.min THEN fn_in.min
               ELSE IF Len(fn_in.scenarios) > fn_in.max THEN fn_in.max
               ELSE Len(fn_in.scenarios)

\* an empty list was padded up to the minimum
C13_Witness ==
    /\ fn_name = "ensure_limits"
    /\ fn_in.scenarios = << >>
    /\ fn_in.min = 2
    /\ Len(fn_out) = 2

(***************************************************************************)
(* C14: _ensure_scenario_limits applied to its own output returns the same *)
(* records in the same order.                                              *)
(***************************************************************************)
C14_Idempotent ==
    [][ (fn_name = "ensure_limits" /\ fn_name' = "ensure_limits_again")
        => fn_out' = fn_out ]_vars

\* the second call ran on a list the first call had sorted and cut
C14_Witness ==
    /\ fn_name = "ensure_limits_again"
    /\ Len(fn_in.scenarios) > fn_in.max
    /\ fn_in.max >= 2
    /\ fn_out # Prefix(fn_in.scenarios, fn_in.max)

(***************************************************************************)
(* C15: _improved_parse_scenarios is total: for every response text (the   *)
(* empty string, prose, a JSON array with elements that are not objects or *)
(* with a title of the wrong type) it returns a list, possibly empty, and  *)
(* never raises.                                                           *)
(***************************************************************************)
C15_ParseTotal ==
    fn_name = "parse" =>
        /\ ~fn_out.raised
        /\ DOMAIN fn_out.list = 1..Len(fn_out.list)

\* the array loop raised on a title that is not a string and the call still
\* returned a list
C15_Witness ==
    /\ fn_name = "parse"
    /\ \E i \in DOMAIN fn_in.elems : fn_in.elems[i].shape = "bad_title"
    /\ ~fn_out.raised
    /\ Len(fn_out.list) = TextFallbackFill

(***************************************************************************)
(* C19: when the remote tier answers with a text no cascade stage can      *)
(* interpret (the empty string, or prose without structured data and       *)
(* without a keyword line), the tier counts as having produced zero        *)
(* candidates: no record comes from it, it does not meet the acceptance    *)
(* condition, and the call goes on to the local tier.                      *)
(***************************************************************************)
C19_UninterpretableIsEmpty ==
    ( /\ ManagerReturned
      /\ InTrace("remote")
      /\ last.remote_kind = "ok"
      /\ last.remote_text = "no_keyword_line" )
    => ( /\ last.remote_count = 0
         /\ ~last.remote_returned
         /\ InTrace("local") )

(***************************************************************************)
(* C20: rejecting a candidate during validation drops only that candidate: *)
(* whatever the number of rejected candidates in the remote tier's answer, *)
(* every other candidate of that answer that passes validation is part of  *)
(* what the tier contributes.                                              *)
(***************************************************************************)
C20_OnlyRejectedDropped ==
    ( /\ fn_name = "ultra_fast"
      /\ \E i \in DOMAIN fn_out.trace : fn_out.trace[i] = "remote"
      /\ \A i \in DOMAIN fn_in.elems : fn_in.elems[i].shape = "object"
      /\ \E i \in DOMAIN fn_in.elems : TitleRejected(fn_in.elems[i].cand.title) )
    => \A i \in DOMAIN fn_in.elems :
          ~TitleRejected(fn_in.elems[i].cand.title)
          => \E j \in DOMAIN fn_out.scenarios :
                fn_out.scenarios[j] = ValidateAndCleanScenario(fn_in.elems[i].cand)

(***************************************************************************)
(* C18: _check_rate_limit(t) changes only the budget of t: the request     *)
(* counter of every other service u is the same after the call as before   *)
(* it, also when the call finds the window expired and resets it. (The     *)
(* window start is the one field last_reset_time; the formula compares the *)
(* counters.)                                                              *)
(***************************************************************************)
C18_OtherBudgetsUnchanged ==
    [][ now' = now =>
          \A u \in RateServices \ {rl_call'.service} :
              DictGet(request_counts', u, 0) = DictGet(request_counts, u, 0)
      ]_vars

(***************************************************************************)
(* C17: get_service_status reports the live state: after any sequence of   *)
(* generate calls the request count it reports for the remote tier equals  *)
(* the budget units consumed for that tier in the current window, and the  *)
(* health it reports for the tier tells whether the tier's last attempt    *)
(* succeeded (here: it is not reported healthy after an attempt that ended *)
(* in an exception or an error status).                                    *)
(***************************************************************************)
C17_StatusIsLive ==
    /\ DictGet(GetServiceStatus.request_counts, "groq", 0)
           = DictGet(request_counts, "groq", 0)
    /\ ( /\ last.entry # "none"
         /\ InTrace("remote")
         /\ last.remote_kind \in {"exception", "http_error"} )
       => ~GetServiceStatus.service_health["enhanced_ai"]

(***************************************************************************)
(* C16: every generate call eventually terminates: the upstream call       *)
(* returns, fails or times out within its bound, the padding and parsing   *)
(* loops finish, and the call leaves each tier for Accepted or             *)
(* AllTiersExhausted and returns a result.                                 *)
(***************************************************************************)
C16_CallTerminates ==
    (call_pc \notin {"not_started", "returned"}) ~> (call_pc = "returned")

\* a call whose request ran into the timeout has returned a result
C16_Witness ==
    /\ call_pc = "returned"
    /\ call_wait = RequestTimeout
    /\ fn_out = TimedOut
    /\ fn_name = "generate_accepted"

(***************************************************************************)
(* C21: once a cache entry has been written for a fingerprint its value    *)
(* never changes, under any interleaving of generate calls, also when two  *)
(* concurrent calls both miss on the fingerprint before either stores.     *)
(***************************************************************************)
C21_EntriesImmutable ==
    [][ \A k \in DOMAIN scenario_cache :
            /\ k \in DOMAIN scenario_cache'
            /\ scenario_cache'[k] = scenario_cache[k] ]_vars

(***************************************************************************)
(* C22: a cache entry is created only on successful completion: the cache  *)
(* never holds an empty record list or a list below the acceptance         *)
(* minimum, so no later call is answered from the cache with such a list.  *)
(***************************************************************************)
C22_CacheHoldsAcceptedLists ==
    \A k \in DOMAIN scenario_cache :
        Len(JsonLoads(scenario_cache[k])) >= ManagerMinScenarios

(***************************************************************************)
(* C28: a unit of the remote tier's budget is consumed only when a request *)
(* is sent: a generate call in which no request reaches the remote service *)
(* (no token configured, for example) leaves the tier's request counter as *)
(* it was.                                                                 *)
(***************************************************************************)
C28_NoRequestNoUnit ==
    [][ ( /\ last' # last
          /\ ~\E i \in DOMAIN last'.trace : last'.trace[i] = "remote" )
        => DictGet(request_counts', "groq", 0) = DictGet(request_counts, "groq", 0)
      ]_vars

(***************************************************************************)
(* C23: whenever the pipeline shortens a record list to its maximum, the   *)
(* records kept are the highest-priority ones: no dropped record has a     *)
(* strictly lower score (priority ordinal + severity ordinal) than a kept  *)
(* record. Checked for the truncation to the target count in               *)
(* generate_ai_scenarios.                                                  *)
(***************************************************************************)
C23_KeptAreHighestPriority ==
    fn_name = "generate_ai" =>
        \A d \in (Len(fn_out.returned) + 1)..Len(fn_out.full) :
            \A k \in 1..Len(fn_out.returned) :
                ScenarioScore(fn_out.full[d]) >= ScenarioScore(fn_out.returned[k])

(***************************************************************************)
(* C24: the prioritisation score is ordinal(priority) + ordinal(severity)  *)
(* over the full enums, lower meaning more important: of two records with  *)
(* the same severity, the one whose priority ranks higher in the           *)
(* five-level enum (P0 - Live Issue above P1 - Critical above ... above    *)
(* P4 - Low) never has the larger score and never comes after the other in *)
(* the list _prioritize_scenarios returns.                                 *)
(***************************************************************************)
C24_EnumOrderRespected ==
    fn_name = "prioritize" =>
        \A i \in DOMAIN fn_out.full : \A j \in DOMAIN fn_out.full :
            ( /\ fn_out.full[i].severity = fn_out.full[j].severity
              /\ PriorityEnumRank(fn_out.full[i].priority)
                     < PriorityEnumRank(fn_out.full[j].priority) )
            => ( /\ ScenarioScore(fn_out.full[i]) <= ScenarioScore(fn_out.full[j])
                 /\ i < j )

(***************************************************************************)
(* C25: padding keeps the result deduplicated: after                       *)
(* _ensure_scenario_limits has padded a list up to min, no synthesized     *)
(* record's title has a token-Jaccard similarity above the dedup threshold *)
(* with the title of any other record of the list.                         *)
(***************************************************************************)
C25_PaddingDeduplicated ==
    ( /\ fn_name = "ensure_limits"
      /\ Len(fn_in.scenarios) < fn_in.min )
    => \A i \in (Len(fn_in.scenarios) + 1)..Len(fn_out) :
          \A j \in DOMAIN fn_out :
              j # i => ~SimilarityAbove(fn_out[i].title, fn_out[j].title,
                                        DedupThresholdTenths)

(***************************************************************************)
(* C26: deduplication is order-preserving and first-seen-wins: the output  *)
(* of _remove_duplicate_scenarios and of _filter_unique_scenarios is a     *)
(* subsequence of its input, the first input record is always kept, and a  *)
(* record is dropped only if the title of an earlier kept record is        *)
(* similar to its title above the threshold.                               *)
(***************************************************************************)
\* the records of seq at the positions of kept, in order
Restrict(seq, kept) ==
    SelectSeq([i \in DOMAIN seq |-> [at |-> i, rec |-> seq[i]]],
              LAMBDA e : e.at \in kept)

DedupThreshold ==
    IF fn_name = "filter_unique" THEN FilterThresholdTenths
    ELSE DedupThresholdTenths

\* out consists of the records of seq at the positions kept, and every
\* position left out has an earlier kept position with a similar title or,
\* when others is given, a similar title among others
FirstSeenWins(seq, out, others) ==
    \E kept \in SUBSET DOMAIN seq :
        /\ Len(Restrict(seq, kept)) = Len(out)
        /\ \A k \in DOMAIN out : out[k] = Restrict(seq, kept)[k].rec
        /\ \A i \in DOMAIN seq \ kept :
              \/ \E k \in kept :
                    /\ k < i
                    /\ SimilarityAbove(seq[i].title, seq[k].title,
                                       DedupThreshold)
              \/ \E t \in others :
                    SimilarityAbove(seq[i].title, t, DedupThreshold)

C27_AcceptedTitleValid ==
    fn_name = "validate_and_clean" =>
        \A i \in DOMAIN fn_out :
            /\ CharLen(fn_out[i].title) >= MinTitleChars
            /\ fn_out[i].title \notin GenericTitles

(***************************************************************************)
(* C29: for a story that already has linked test cases,                    *)
(* generate_and_create_scenarios without force_regenerate and without      *)
(* manual mode creates no test case: it returns True and has called        *)
(* neither the scenario generation nor the creation of Jira issues.        *)
(***************************************************************************)
C29_NoRegeneration ==
    ( /\ j_pc # "idle"
      /\ j_run.found
      /\ LinkedAtStart[j_run.story] # {}
      /\ ~j_run.force
      /\ ~j_run.manual )
    => /\ generation_calls = 0
       /\ issues_created = {}
       /\ j_pc = "returned" => j_ret = TRUE

(***************************************************************************)
(* C30: for every test case that is created at most one link request       *)
(* between the test issue and its story is sent: create_link sends none    *)
(* when the link exists, so the link step of create_test_scenario followed *)
(* by the link step of the generator never sends a second one.             *)
(***************************************************************************)
C30_OneLinkRequest ==
    \A i \in issues_created : link_posts[i] <= 1

====
